---- MODULE Spec2Model ----
(***************************************************************************)
(* AutoHedge: the trading state machine (trading/state_machine.py) and the *)
(* retry-bounded trading cycle (trading/cycle.py).                         *)
(***************************************************************************)
EXTENDS Integers, Sequences, FiniteSets, TLC

VARIABLES
    sm,         \* a TradingStateMachine object driven through its public API
    smInitial,  \* the initial_state argument sm was constructed with
    cbLog,      \* the invocations the registered callback received
    entered,    \* the targets of the transitions that succeeded since construction
    wasReset,   \* TRUE once reset() was called on sm
    nCalls,     \* number of API calls made on sm
    last,       \* the last API call on sm: operation, argument, return value, object before
    cyc,        \* a TradingCycle object and the frame of its run() call
    obs,        \* what the collaborators of cyc saw during the current run() call
    cycLast,    \* the last step of run(): its kind and the object before it
    reg,        \* an IntelligenceRegistry object
    enabled,    \* the _enabled field of every provider object
    g,          \* the frame of the gather_insights call in flight on reg
    gobs,       \* what the providers saw during that call
    gret,       \* the last value returned to a caller of reg
    api,        \* the last call on the provider API of reg, and the registry before it
    batch,      \* the frame of an AutoHedge.run call and the analyses it collected
    ctl,        \* two TradingCycle objects whose run() calls interleave
    snap,       \* a TradingStateMachine whose lists live on a heap, and the lists its caller holds
    adj         \* a get_risk_adjustment call: the insights it gathered and the value it returned

vars == <<sm, smInitial, cbLog, entered, wasReset, nCalls, last, cyc, obs, cycLast,
          reg, enabled, g, gobs, gret, api, batch, ctl, snap, adj>>
smVars == <<sm, smInitial, cbLog, entered, wasReset, nCalls, last>>
cycVars == <<cyc, obs, cycLast>>
regVars == <<reg, enabled, g, gobs, gret, api>>

\* ---------------------------------------------------------------- bounds
MaxCalls == 8
MaxRetries == 3
MaxRuns == 2
MaxWorkers == 2
MaxToggles == 1
BatchRetries == 2
CtlRetries == 2
MaxLists == 3
MaxSnapSteps == 5
MaxInsights == 3

\* ---------------------------------------------------------------- core/enums.py
INITIALIZATION == "initialization"
THESIS_GENERATION == "thesis_generation"
QUANT_ANALYSIS == "quant_analysis"
RISK_ASSESSMENT == "risk_assessment"
ORDER_GENERATION == "order_generation"
ORDER_EXECUTION == "order_execution"
MONITORING == "monitoring"
COMPLETE == "complete"

TradingState ==
    { INITIALIZATION, THESIS_GENERATION, QUANT_ANALYSIS, RISK_ASSESSMENT,
      ORDER_GENERATION, ORDER_EXECUTION, MONITORING, COMPLETE }

APPROVED == "approved"
REJECTED == "rejected"

RiskDecision == { APPROVED, REJECTED }

None == "None"

\* ---------------------------------------------------------------- trading/state_machine.py
\* x in lst, for a Python list
InList(x, lst) == \E i \in DOMAIN lst : lst[i] = x

\* Mutant: Complete has ThesisGeneration as a successor (a new cycle).
TRANSITIONS_restart_from_complete ==
    [ s \in TradingState |->
        CASE s = INITIALIZATION    -> << THESIS_GENERATION >>
          [] s = THESIS_GENERATION -> << QUANT_ANALYSIS >>
          [] s = QUANT_ANALYSIS    -> << RISK_ASSESSMENT >>
          [] s = RISK_ASSESSMENT   -> << ORDER_GENERATION, THESIS_GENERATION >>
          [] s = ORDER_GENERATION  -> << ORDER_EXECUTION >>
          [] s = ORDER_EXECUTION   -> << MONITORING >>
          [] s = MONITORING        -> << COMPLETE, THESIS_GENERATION >>
          [] s = COMPLETE          -> << THESIS_GENERATION >> ]

TRANSITIONS ==
    [ s \in TradingState |->
        CASE s = INITIALIZATION    -> << THESIS_GENERATION >>
          [] s = THESIS_GENERATION -> << QUANT_ANALYSIS >>
          [] s = QUANT_ANALYSIS    -> << RISK_ASSESSMENT >>
          [] s = RISK_ASSESSMENT   -> << ORDER_GENERATION, THESIS_GENERATION >>
          [] s = ORDER_GENERATION  -> << ORDER_EXECUTION >>
          [] s = ORDER_EXECUTION   -> << MONITORING >>
          [] s = MONITORING        -> << COMPLETE, THESIS_GENERATION >>
          [] s = COMPLETE          -> << >> ]

\* TradingStateMachine.__init__
TradingStateMachine(initial_state) ==
    [ state |-> initial_state,
      history |-> << initial_state >>,
      on_transition |-> None ]

set_transition_callback(m, callback) ==
    [ m EXCEPT !.on_transition = callback ]

\* Mutant: a transition to the current stage is accepted as well.
can_transition_to_or_stay(m, target) ==
    \/ InList(target, TRANSITIONS[m.state])
    \/ target = m.state

can_transition_to(m, target) ==
    InList(target, TRANSITIONS[m.state])

\* One call self._on_transition(from_state, target): its arguments, and the
\* stage and history of the machine at the time of the call.
Invocation(from_state, target, m) ==
    [ from_state |-> from_state, to_state |-> target,
      state |-> m.state, history |-> m.history ]

\* Mutant: the stage left, not the stage entered, is appended to the history.
transition_to_appends_from_state(m, target) ==
    IF ~ can_transition_to(m, target)
    THEN [ m |-> m, ret |-> FALSE, calls |-> << >> ]
    ELSE LET after == [ m EXCEPT !.state = target,
                                 !.history = Append(@, m.state) ]
         IN  [ m |-> after,
               ret |-> TRUE,
               calls |-> IF m.on_transition # None
                         THEN << Invocation(m.state, target, after) >>
                         ELSE << >> ]

\* Mutant: the callback is invoked before the stage and the history are updated.
transition_to_callback_first(m, target) ==
    IF ~ can_transition_to(m, target)
    THEN [ m |-> m, ret |-> FALSE, calls |-> << >> ]
    ELSE [ m |-> [ m EXCEPT !.state = target,
                            !.history = Append(@, target) ],
           ret |-> TRUE,
           calls |-> IF m.on_transition # None
                     THEN << Invocation(m.state, target, m) >>
                     ELSE << >> ]

\* Mutant: a transition to the current stage is accepted and recorded.
transition_to_idempotent(m, target) ==
    IF ~ (can_transition_to(m, target) \/ target = m.state)
    THEN [ m |-> m, ret |-> FALSE, calls |-> << >> ]
    ELSE LET after == [ m EXCEPT !.state = target,
                                 !.history = Append(@, target) ]
         IN  [ m |-> after,
               ret |-> TRUE,
               calls |-> IF m.on_transition # None
                         THEN << Invocation(m.state, target, after) >>
                         ELSE << >> ]

\* The result is the object after the call, the value returned and the
\* callback invocations made during the call.
transition_to(m, target) ==
    IF ~ can_transition_to(m, target)
    THEN [ m |-> m, ret |-> FALSE, calls |-> << >> ]
    ELSE LET after == [ m EXCEPT !.state = target,
                                 !.history = Append(@, target) ]
         IN  [ m |-> after,
               ret |-> TRUE,
               calls |-> IF m.on_transition # None
                         THEN << Invocation(m.state, target, after) >>
                         ELSE << >> ]

\* Mutant: the decision is applied by assignment, without the stage check and
\* without transition_to.
handle_risk_decision_by_assignment(m, decision) ==
    LET next_state == IF decision = APPROVED
                      THEN ORDER_GENERATION
                      ELSE THESIS_GENERATION
    IN  [ m |-> [ m EXCEPT !.state = next_state,
                           !.history = Append(@, next_state) ],
          ret |-> next_state, calls |-> << >>, moved |-> TRUE ]

\* Mutant: the two decisions are mapped to each other's stage.
handle_risk_decision_swapped(m, decision) ==
    IF m.state # RISK_ASSESSMENT
    THEN [ m |-> m, ret |-> m.state, calls |-> << >>, moved |-> FALSE ]
    ELSE LET next_state == IF decision = APPROVED
                           THEN THESIS_GENERATION
                           ELSE ORDER_GENERATION
             t == transition_to(m, next_state)
         IN  [ m |-> t.m, ret |-> next_state, calls |-> t.calls, moved |-> t.ret ]

\* Mutant: the check of the current stage is missing.
handle_risk_decision_unchecked(m, decision) ==
    LET next_state == IF decision = APPROVED
                      THEN ORDER_GENERATION
                      ELSE THESIS_GENERATION
        t == transition_to(m, next_state)
    IN  [ m |-> t.m, ret |-> next_state, calls |-> t.calls, moved |-> t.ret ]

handle_risk_decision(m, decision) ==
    IF m.state # RISK_ASSESSMENT
    THEN [ m |-> m, ret |-> m.state, calls |-> << >>, moved |-> FALSE ]
    ELSE LET next_state == IF decision = APPROVED
                           THEN ORDER_GENERATION
                           ELSE THESIS_GENERATION
             t == transition_to(m, next_state)
         IN  [ m |-> t.m, ret |-> next_state, calls |-> t.calls, moved |-> t.ret ]

reset(m) ==
    [ m EXCEPT !.state = INITIALIZATION,
               !.history = << INITIALIZATION >> ]

is_complete(m) == m.state = COMPLETE

\* Lists are objects: `heap` is the sequence of the list objects that exist, a
\* reference is an index into it, and the _history of the object o is a
\* reference.
deref(heap, o) ==
    [ o EXCEPT !.history = heap[o.history] ]

\* Mutant: the property hands out the list itself.
history_alias(heap, o) ==
    [ heap |-> heap, ret |-> o.history ]

\* the history property: self._history.copy()
history(heap, o) ==
    [ heap |-> Append(heap, heap[o.history]), ret |-> Len(heap) + 1 ]

\* transition_to on o: self._history.append(target) changes the list in place
transition_to_in_place(heap, o, target) ==
    LET t == transition_to(deref(heap, o), target) IN
    [ heap |-> [ heap EXCEPT ![o.history] = t.m.history ],
      o |-> [ o EXCEPT !.state = t.m.state ],
      ret |-> t.ret ]

\* reset on o: self._history = [INITIALIZATION] binds a new list
reset_rebinds(heap, o) ==
    LET m == reset(deref(heap, o)) IN
    [ heap |-> Append(heap, m.history),
      o |-> [ o EXCEPT !.state = m.state, !.history = Len(heap) + 1 ] ]

\* what a caller may do to a list it holds
ListChanges == { "clear", "append", "pop" }

ChangedValue(value, change) ==
    CASE change = "clear"  -> << >>
      [] change = "append" -> Append(value, COMPLETE)
      [] change = "pop"    -> IF value = << >> THEN value
                              ELSE SubSeq(value, 1, Len(value) - 1)

list_change(heap, r, change) ==
    [ heap EXCEPT ![r] = ChangedValue(@, change) ]

\* ---------------------------------------------------------------- trading/cycle.py
\* Texts are tuples of one-character strings.
LowerChar(ch) ==
    CASE ch = "A" -> "a" [] ch = "C" -> "c" [] ch = "D" -> "d" [] ch = "E" -> "e"
      [] ch = "J" -> "j" [] ch = "O" -> "o" [] ch = "P" -> "p" [] ch = "R" -> "r"
      [] ch = "T" -> "t" [] ch = "V" -> "v" [] OTHER -> ch

\* str.lower
lower(text) == [ i \in DOMAIN text |-> LowerChar(text[i]) ]

\* pat in text, for Python strings
InStr(pat, text) ==
    \E i \in 0 .. (Len(text) - Len(pat)) : SubSeq(text, i + 1, i + Len(pat)) = pat

\* Mutant: the text is searched as it is, without lower().
parse_risk_decision_case_sensitive(risk_assessment) ==
    IF \/ InStr(<< "r", "e", "j", "e", "c", "t" >>, risk_assessment)
       \/ InStr(<< "r", "e", "j", "e", "c", "t", "e", "d" >>, risk_assessment)
    THEN REJECTED
    ELSE APPROVED

parse_risk_decision(risk_assessment) ==
    LET risk_lower == lower(risk_assessment) IN
    IF \/ InStr(<< "r", "e", "j", "e", "c", "t" >>, risk_lower)
       \/ InStr(<< "r", "e", "j", "e", "c", "t", "e", "d" >>, risk_lower)
    THEN REJECTED
    ELSE APPROVED

\* A local of run() before it is bound, and the value run() returns on failure.
Unbound == [ kind |-> "unbound", attempt |-> 0 ]
NoResult == [ kind |-> "None" ]

\* TradingCycle.__init__, with the frame of a run() call that has not started
TradingCycle(intelligence_registry, max_retries) ==
    [ intelligence_registry |-> intelligence_registry,
      max_retries |-> max_retries,
      state_machine |-> TradingStateMachine(INITIALIZATION),
      pc |-> "idle",
      retry_count |-> 0,
      market_data |-> Unbound,
      intel_context |-> Unbound,
      thesis |-> Unbound,
      quant_analysis |-> Unbound,
      risk_assessment |-> Unbound,
      risk_decision |-> "unbound",
      order |-> Unbound,
      result |-> NoResult ]

\* Mutant: the market data is fetched before the try statement.
TryBodyAfterMarketData == { "intelligence", "thesis", "quant", "risk", "order" }

\* The collaborator calls made inside the try statement of run().
TryBody == { "market_data", "intelligence", "thesis", "quant", "risk", "order" }

\* Mutant: run() does not reset the state machine.
run_begin_without_reset(c) ==
    [ TradingCycle(c.intelligence_registry, c.max_retries) EXCEPT
        !.state_machine = c.state_machine,
        !.retry_count = 0,
        !.pc = "loop" ]

\* run(), up to the loop: reset and retry_count = 0
run_begin(c) ==
    [ TradingCycle(c.intelligence_registry, c.max_retries) EXCEPT
        !.state_machine = reset(c.state_machine),
        !.retry_count = 0,
        !.pc = "loop" ]

\* the code after the loop
return_none(c) ==
    [ c EXCEPT !.pc = "done", !.result = NoResult ]

\* Mutant: the loop condition is retry_count <= max_retries.
loop_head_off_by_one(c) ==
    IF c.retry_count <= c.max_retries
    THEN [ c EXCEPT !.state_machine = transition_to(@, THESIS_GENERATION).m,
                    !.pc = "market_data" ]
    ELSE return_none(c)

\* Mutant: the body runs once before the condition is tested.
loop_head_at_least_once(c) ==
    IF c.retry_count < c.max_retries \/ c.retry_count = 0
    THEN [ c EXCEPT !.state_machine = transition_to(@, THESIS_GENERATION).m,
                    !.pc = "market_data" ]
    ELSE return_none(c)

\* the loop condition and step 1
loop_head(c) ==
    IF c.retry_count < c.max_retries
    THEN [ c EXCEPT !.state_machine = transition_to(@, THESIS_GENERATION).m,
                    !.pc = "market_data" ]
    ELSE return_none(c)

\* Mutant: the handler does not count the failed attempt.
except_handler_uncounted(c) ==
    IF c.retry_count >= c.max_retries
    THEN return_none(c)
    ELSE [ c EXCEPT !.pc = "loop" ]

\* except Exception
except_handler(c) ==
    LET d == [ c EXCEPT !.retry_count = @ + 1 ] IN
    IF d.retry_count >= d.max_retries
    THEN return_none(d)
    ELSE [ d EXCEPT !.pc = "loop" ]

\* a collaborator call at `site` raises
raise_at(c, site) ==
    IF site \in TryBody
    THEN except_handler(c)
    ELSE [ c EXCEPT !.pc = "raised" ]

got_market_data(c, data) ==
    [ c EXCEPT !.market_data = data, !.pc = "intelligence" ]

\* _gather_intelligence returned, and the thesis task is next
got_intelligence(c, context) ==
    [ c EXCEPT !.intel_context = context, !.pc = "thesis" ]

\* Mutant: a thesis text held from an earlier attempt is kept.
got_thesis_cached(c, text) ==
    [ c EXCEPT !.thesis = IF c.thesis = Unbound THEN text ELSE c.thesis,
               !.state_machine = transition_to(@, QUANT_ANALYSIS).m,
               !.pc = "quant" ]

got_thesis(c, text) ==
    [ c EXCEPT !.thesis = text,
               !.state_machine = transition_to(@, QUANT_ANALYSIS).m,
               !.pc = "quant" ]

got_quant(c, text) ==
    [ c EXCEPT !.quant_analysis = text,
               !.state_machine = transition_to(@, RISK_ASSESSMENT).m,
               !.pc = "risk" ]

\* Mutant: a rejection does not count as an attempt.
got_risk_uncounted(c, text) ==
    LET risk_decision == parse_risk_decision(text.text)
        d == [ c EXCEPT !.risk_assessment = text, !.risk_decision = risk_decision ]
    IN  IF risk_decision = REJECTED
        THEN [ d EXCEPT !.state_machine = handle_risk_decision(@, risk_decision).m,
                        !.pc = "loop" ]
        ELSE [ d EXCEPT !.state_machine = transition_to(@, ORDER_GENERATION).m,
                        !.pc = "order" ]

\* what create_risk_task is given
risk_task(c) ==
    [ thesis |-> c.thesis,
      quant_analysis |-> c.quant_analysis,
      intelligence_context |-> c.intel_context ]

\* what create_execution_task is given
execution_task(c) ==
    [ thesis |-> c.thesis,
      risk_assessment |-> c.risk_assessment ]

\* Mutant: the rejection branch lacks its continue and falls through to step 5.
got_risk_without_continue(c, text) ==
    LET risk_decision == parse_risk_decision(text.text)
        d == [ c EXCEPT !.risk_assessment = text, !.risk_decision = risk_decision ]
    IN  IF risk_decision = REJECTED
        THEN [ d EXCEPT !.retry_count = @ + 1,
                        !.state_machine =
                            transition_to(handle_risk_decision(@, risk_decision).m,
                                          ORDER_GENERATION).m,
                        !.pc = "order" ]
        ELSE [ d EXCEPT !.state_machine = transition_to(@, ORDER_GENERATION).m,
                        !.pc = "order" ]

got_risk(c, text) ==
    LET risk_decision == parse_risk_decision(text.text)
        d == [ c EXCEPT !.risk_assessment = text, !.risk_decision = risk_decision ]
    IN  IF risk_decision = REJECTED
        THEN [ d EXCEPT !.retry_count = @ + 1,
                        !.state_machine = handle_risk_decision(@, risk_decision).m,
                        !.pc = "loop" ]
        ELSE [ d EXCEPT !.state_machine = transition_to(@, ORDER_GENERATION).m,
                        !.pc = "order" ]

StockAnalysis(c, order, state) ==
    [ thesis |-> c.thesis,
      quant_analysis |-> c.quant_analysis,
      risk_assessment |-> c.risk_assessment,
      risk_decision |-> c.risk_decision,
      order |-> order,
      state |-> state ]

\* Mutant: the transition to Complete is missing.
got_order_without_complete(c, text) ==
    LET m1 == transition_to(c.state_machine, ORDER_EXECUTION).m
        m2 == transition_to(m1, MONITORING).m
    IN  [ c EXCEPT !.order = text,
                   !.state_machine = m2,
                   !.result = StockAnalysis(c, text, m2.state),
                   !.pc = "done" ]

got_order(c, text) ==
    LET m1 == transition_to(c.state_machine, ORDER_EXECUTION).m
        m2 == transition_to(m1, MONITORING).m
        m3 == transition_to(m2, COMPLETE).m
    IN  [ c EXCEPT !.order = text,
                   !.state_machine = m3,
                   !.result = StockAnalysis(c, text, m3.state),
                   !.pc = "done" ]

\* Several TradingCycle objects: objs[i] holds the attributes of the i-th and
\* the locals of its run() call.
\* a state machine and a retry counter kept on the class, one for all objects
store_on_class(objs, i, c) ==
    [ j \in DOMAIN objs |->
        IF j = i THEN c
        ELSE [ objs[j] EXCEPT !.state_machine = c.state_machine,
                              !.retry_count = c.retry_count ] ]

\* self.state_machine is assigned in __init__ and retry_count is a local of
\* run(): a step of object i writes to object i alone
store(objs, i, c) ==
    [ objs EXCEPT ![i] = c ]

\* the collaborator call that run() of c is waiting for returns `value`
resume(c, value) ==
    CASE c.pc = "market_data"  -> got_market_data(c, value)
      [] c.pc = "intelligence" -> got_intelligence(c, value)
      [] c.pc = "thesis"       -> got_thesis(c, value)
      [] c.pc = "quant"        -> got_quant(c, value)
      [] c.pc = "risk"         -> got_risk(c, value)
      [] c.pc = "order"        -> got_order(c, value)

\* ---------------------------------------------------------------- autohedge.py
\* AutoHedge, with the frame of a run() call that has not started
AutoHedge(stocks, intelligence_registry, max_retries) ==
    [ stocks |-> stocks,
      intelligence_registry |-> intelligence_registry,
      max_retries |-> max_retries,
      pc |-> "idle",
      idx |-> 0,
      analyses |-> << >> ]

\* run(), up to the loop: self.results.analyses = []
batch_begin(b) ==
    [ b EXCEPT !.analyses = << >>, !.idx = 1, !.pc = "for" ]

\* the loop over config.stocks: the next stock, or the return after the last
batch_next(b) ==
    IF b.idx <= Len(b.stocks)
    THEN [ b EXCEPT !.pc = "cycle" ]
    ELSE [ b EXCEPT !.pc = "done" ]

\* the TradingCycle built for one stock
batch_cycle(b) ==
    TradingCycle(b.intelligence_registry, b.max_retries)

\* a loop that ends at the first stock whose cycle failed
batch_collect_stops_on_failure(b, analysis) ==
    IF analysis # NoResult
    THEN [ b EXCEPT !.analyses = Append(@, [ stock |-> b.stocks[b.idx],
                                             analysis |-> analysis ]),
                    !.idx = @ + 1, !.pc = "for" ]
    ELSE [ b EXCEPT !.idx = @ + 1, !.pc = "done" ]

\* cycle.run returned `analysis` for the stock at idx
batch_collect(b, analysis) ==
    IF analysis # NoResult
    THEN [ b EXCEPT !.analyses = Append(@, [ stock |-> b.stocks[b.idx],
                                             analysis |-> analysis ]),
                    !.idx = @ + 1, !.pc = "for" ]
    ELSE [ b EXCEPT !.idx = @ + 1, !.pc = "for" ]

\* ---------------------------------------------------------------- intelligence/base.py
SENTIMENT == "sentiment"
MACRO == "macro"
SECTOR == "sector"

IntelligenceType ==
    { SENTIMENT, MACRO, SECTOR, "technical", "news", "fundamental", "options",
      "insider", "institutional", "custom" }

\* Three provider objects and the two stocks they are asked about.
ProviderIds == { "p1", "p2", "p3" }

\* A fourth provider object, which carries the name of the first.
Objects == ProviderIds \cup { "p4" }
Stocks == { "NVDA", "XYZ" }

\* IntelligenceProvider.name
provider_name(p) ==
    CASE p = "p1" -> "sentiment" [] p = "p2" -> "macro" [] p = "p3" -> "sector"
      [] p = "p4" -> "sentiment"

\* IntelligenceProvider.intelligence_type
intelligence_type(p) ==
    CASE p = "p1" -> SENTIMENT [] p = "p2" -> MACRO [] p = "p3" -> SECTOR
      [] p = "p4" -> SENTIMENT

\* IntelligenceProvider.validate_stock: True, unless overridden (p3 is)
validate_stock(p, stock) == ~ (p = "p3" /\ stock = "XYZ")

\* The confidence and risk_impact a provider may report, in tenths.
Readings ==
    { [ confidence |-> 8, risk_impact |-> 5 ],
      [ confidence |-> 2, risk_impact |-> -10 ],
      [ confidence |-> 0, risk_impact |-> 5 ] }

IntelligenceResult(p, stock, reading) ==
    [ provider_name |-> provider_name(p),
      intelligence_type |-> intelligence_type(p),
      stock |-> stock,
      confidence |-> reading.confidence,
      risk_impact |-> reading.risk_impact ]

\* What an analyze call ends with: a result, or an exception.
Returned(p, stock, reading) ==
    [ provider |-> p, ok |-> TRUE, result |-> IntelligenceResult(p, stock, reading) ]
Raised(p) ==
    [ provider |-> p, ok |-> FALSE, result |-> NoResult ]

\* ---------------------------------------------------------------- intelligence/registry.py
\* _providers is a dict: its keys, in insertion order, with the object each holds.
IntelligenceRegistry(parallel, max_workers) ==
    [ providers |-> << >>, parallel |-> parallel, max_workers |-> max_workers ]

\* the position of `name` among the keys, 0 when absent
KeyIndex(r, name) ==
    IF \E i \in DOMAIN r.providers : provider_name(r.providers[i]) = name
    THEN CHOOSE i \in DOMAIN r.providers : provider_name(r.providers[i]) = name
    ELSE 0

\* an insertion that never looks for the name
register_always_appends(r, p) ==
    [ r EXCEPT !.providers = Append(@, p) ]

\* Mutant: a name that is present is deleted and inserted again, at the end.
register_moves_to_end(r, p) ==
    [ r EXCEPT !.providers =
        Append(SelectSeq(@, LAMBDA q : provider_name(q) # provider_name(p)), p) ]

register(r, p) ==
    LET i == KeyIndex(r, provider_name(p)) IN
    IF i # 0
    THEN [ r EXCEPT !.providers[i] = p ]
    ELSE [ r EXCEPT !.providers = Append(@, p) ]

\* what register returns: self
register_returns(r, p) == "self"

\* self._providers.get(name)
get_provider(r, name) ==
    LET i == KeyIndex(r, name) IN
    IF i # 0 THEN r.providers[i] ELSE None

clear(r) == [ r EXCEPT !.providers = << >> ]

\* a removal that reports success and leaves the key in place
unregister_keeps_key(r, name) ==
    IF KeyIndex(r, name) # 0
    THEN [ r |-> r, ret |-> TRUE ]
    ELSE [ r |-> r, ret |-> FALSE ]

unregister(r, name) ==
    LET i == KeyIndex(r, name) IN
    IF i # 0
    THEN [ r |-> [ r EXCEPT !.providers =
                       SubSeq(@, 1, i - 1) \o SubSeq(@, i + 1, Len(@)) ],
           ret |-> TRUE ]
    ELSE [ r |-> r, ret |-> FALSE ]

list_providers(r) ==
    [ i \in DOMAIN r.providers |-> provider_name(r.providers[i]) ]

list_enabled_providers(r, en) ==
    LET on == SelectSeq(r.providers, LAMBDA p : en[p]) IN
    [ i \in DOMAIN on |-> provider_name(on[i]) ]

enable_provider(r, en, name) ==
    LET i == KeyIndex(r, name) IN
    IF i # 0
    THEN [ enabled |-> [ en EXCEPT ![r.providers[i]] = TRUE ], ret |-> TRUE ]
    ELSE [ enabled |-> en, ret |-> FALSE ]

\* a disable that reaches every object of that name, registered or not
disable_provider_by_name(r, en, name) ==
    [ enabled |-> [ p \in DOMAIN en |-> IF provider_name(p) = name THEN FALSE ELSE en[p] ],
      ret |-> TRUE ]

disable_provider(r, en, name) ==
    LET i == KeyIndex(r, name) IN
    IF i # 0
    THEN [ enabled |-> [ en EXCEPT ![r.providers[i]] = FALSE ], ret |-> TRUE ]
    ELSE [ enabled |-> en, ret |-> FALSE ]

\* The types argument of gather_insights: None, or a list of types.
NoTypes == [ is_none |-> TRUE, list |-> << >> ]
TypeList(list) == [ is_none |-> FALSE, list |-> list ]

\* a selection that leaves the enabled flag out
select_providers_any_enabled(r, en, stock, types) ==
    SelectSeq(r.providers,
              LAMBDA p : /\ validate_stock(p, stock)
                         /\ (types.is_none \/ InList(intelligence_type(p), types.list)))

\* the list enabled_providers of gather_insights
select_providers(r, en, stock, types) ==
    SelectSeq(r.providers,
              LAMBDA p : /\ en[p]
                         /\ validate_stock(p, stock)
                         /\ (types.is_none \/ InList(intelligence_type(p), types.list)))

\* a choice of _gather_parallel that leaves the parallel flag out
use_parallel_by_count(r, providers) ==
    Len(providers) > 1

\* the condition under which gather_insights calls _gather_parallel
use_parallel(r, providers) ==
    r.parallel /\ Len(providers) > 1

\* a pool as wide as the selection
pool_width_per_provider(r, providers) ==
    Len(providers)

\* the max_workers argument of the ThreadPoolExecutor of _gather_parallel
pool_width(r, providers) ==
    r.max_workers

\* No gather_insights call in flight.
NoGather ==
    [ pc |-> "idle", stock |-> "", types |-> NoTypes, selected |-> << >>,
      idx |-> 0, width |-> 0, queue |-> << >>, running |-> { }, finished |-> { },
      early |-> { }, waiter |-> << >>, yielded |-> { }, results |-> << >> ]

\* gather_insights up to the first analyze call.  pc is "returned" when nothing
\* is selected, "sequential" inside _gather_sequential, and "submitted" inside
\* _gather_parallel once every provider is submitted to the executor.
gather_insights(r, en, stock, types) ==
    LET enabled_providers == select_providers(r, en, stock, types)
        f == [ NoGather EXCEPT !.stock = stock, !.types = types,
                               !.selected = enabled_providers ]
    IN  IF enabled_providers = << >>
        THEN [ f EXCEPT !.pc = "returned" ]
        ELSE IF use_parallel(r, enabled_providers)
        THEN [ f EXCEPT !.pc = "submitted",
                        !.width = pool_width(r, enabled_providers),
                        !.queue = enabled_providers ]
        ELSE [ f EXCEPT !.pc = "sequential", !.idx = 1 ]

\* a selection that is filtered again whenever a flag changes
selection_after_toggle_live(f, en) ==
    [ f EXCEPT !.queue = SelectSeq(@, LAMBDA p : en[p]) ]

\* enabled_providers is a list built before the first analyze call: a later
\* change of a provider's flag does not reach the gather in flight
selection_after_toggle(f, en) ==
    f

\* _gather_sequential: the analyze call of the provider at idx starts
sequential_invoke(f) ==
    [ f EXCEPT !.running = { f.selected[f.idx] } ]

\* a loop without the try block: the exception of analyze leaves gather_insights
gather_sequential_step_without_try(f, outcome) ==
    IF outcome.ok
    THEN LET h == [ f EXCEPT !.running = { },
                             !.idx = @ + 1,
                             !.results = Append(@, outcome.result) ]
         IN  IF h.idx > Len(h.selected) THEN [ h EXCEPT !.pc = "returned" ] ELSE h
    ELSE [ f EXCEPT !.running = { }, !.pc = "raised" ]

\* _gather_sequential: that call ended with `outcome`; the loop goes on or returns
gather_sequential_step(f, outcome) ==
    LET h == [ f EXCEPT !.running = { },
                        !.idx = @ + 1,
                        !.results = IF outcome.ok THEN Append(@, outcome.result) ELSE @ ]
    IN  IF h.idx > Len(h.selected) THEN [ h EXCEPT !.pc = "returned" ] ELSE h

\* ThreadPoolExecutor: a worker thread takes the oldest submitted call
worker_start(f) ==
    [ f EXCEPT !.running = @ \cup { Head(f.queue) }, !.queue = Tail(@) ]

\* ThreadPoolExecutor: a running call ended and its future is finished; once
\* as_completed is iterating, its waiter notes the future.
worker_finish(f, outcome) ==
    [ f EXCEPT !.running = @ \ { outcome.provider },
               !.finished = @ \cup { outcome },
               !.waiter = IF f.pc = "as_completed"
                          THEN Append(@, outcome.provider)
                          ELSE @ ]

\* as_completed(futures) starts: the futures already finished are set aside
as_completed_begin(f) ==
    [ f EXCEPT !.pc = "as_completed",
               !.early = { o.provider : o \in f.finished } ]

\* The futures as_completed may yield next: any of those set aside at its
\* start, and after them the oldest the waiter noted.
NextYield(f) ==
    IF f.early # { } THEN f.early
    ELSE IF f.waiter # << >> THEN { Head(f.waiter) }
    ELSE { }

\* a loop left at the first future yielded
join_complete_at_first(f) ==
    f.yielded # { }

\* the with block of _gather_parallel is left once every future was yielded
join_complete(f) ==
    \A i \in DOMAIN f.selected : f.selected[i] \in f.yielded

\* results kept sorted by the position of their provider in the selection
collect_result_sorted(results, selected, result) ==
    LET pos(x) == CHOOSE i \in DOMAIN selected :
                      provider_name(selected[i]) = x.provider_name
        lower_part == SelectSeq(results, LAMBDA x : pos(x) < pos(result))
        upper_part == SelectSeq(results, LAMBDA x : pos(x) > pos(result))
    IN  lower_part \o << result >> \o upper_part

\* results.append(result) in the loop over as_completed
collect_result(results, selected, result) ==
    Append(results, result)

\* one iteration of the loop over as_completed, for the future of provider p
as_completed_step(f, p) ==
    LET o == CHOOSE o \in f.finished : o.provider = p
        h == [ f EXCEPT !.early = @ \ { p },
                        !.waiter = IF p \in f.early THEN @ ELSE Tail(@),
                        !.yielded = @ \cup { p },
                        !.results = IF o.ok
                                    THEN collect_result(@, f.selected, o.result)
                                    ELSE @ ]
    IN  IF join_complete(h) THEN [ h EXCEPT !.pc = "returned" ] ELSE h

\* sum(i.confidence for i in insights), in tenths
RECURSIVE total_weight(_)
total_weight(insights) ==
    IF insights = << >> THEN 0
    ELSE Head(insights).confidence + total_weight(Tail(insights))

\* Mutant: the impacts are summed without their weights.
RECURSIVE weighted_sum_of_impacts(_)
weighted_sum_of_impacts(insights) ==
    IF insights = << >> THEN 0
    ELSE Head(insights).risk_impact * 10
           + weighted_sum_of_impacts(Tail(insights))

\* sum(i.risk_impact * i.confidence for i in insights), in hundredths
RECURSIVE weighted_sum(_)
weighted_sum(insights) ==
    IF insights = << >> THEN 0
    ELSE Head(insights).risk_impact * Head(insights).confidence
           + weighted_sum(Tail(insights))

\* The float num / den; confidence and risk_impact are counted in tenths.
Zero == [ num |-> 0, den |-> 1 ]

\* the plain mean of risk_impact
get_risk_adjustment_unweighted(insights) ==
    IF insights = << >>
    THEN Zero
    ELSE LET impact[n \in 0 .. Len(insights)] ==
                 IF n = 0 THEN 0 ELSE insights[n].risk_impact + impact[n - 1]
         IN  [ num |-> impact[Len(insights)], den |-> 10 * Len(insights) ]

\* get_risk_adjustment, after its gather_insights call returned `insights`
get_risk_adjustment(insights) ==
    IF insights = << >>
    THEN Zero
    ELSE IF total_weight(insights) = 0
         THEN Zero
         ELSE [ num |-> weighted_sum(insights), den |-> 10 * total_weight(insights) ]

\* a block that renders the first insight only
get_aggregated_context_first_only(insights) ==
    IF insights = << >>
    THEN [ text |-> "No additional market intelligence available.",
           sections |-> << >> ]
    ELSE [ text |-> "ADDITIONAL MARKET INTELLIGENCE",
           sections |-> << insights[1].provider_name >> ]

\* an empty text in place of the placeholder
get_aggregated_context_blank(insights) ==
    IF insights = << >>
    THEN [ text |-> "", sections |-> << >> ]
    ELSE [ text |-> "ADDITIONAL MARKET INTELLIGENCE",
           sections |-> [ i \in DOMAIN insights |-> insights[i].provider_name ] ]

\* get_aggregated_context, after its gather_insights call returned `insights`:
\* the placeholder, or the block with one section per insight
get_aggregated_context(insights) ==
    IF insights = << >>
    THEN [ text |-> "No additional market intelligence available.",
           sections |-> << >> ]
    ELSE [ text |-> "ADDITIONAL MARKET INTELLIGENCE",
           sections |-> [ i \in DOMAIN insights |-> insights[i].provider_name ] ]

\* TradingCycle._gather_intelligence (trading/cycle.py), given what the
\* registry's gather returned
gather_intelligence(intelligence_registry, insights) ==
    IF intelligence_registry = None
    THEN [ text |-> "", sections |-> << >> ]
    ELSE get_aggregated_context(insights)

\* ---------------------------------------------------------------- the object under its API
NoCall == [ op |-> "none", arg |-> None, ret |-> None, pre |-> None, cbPre |-> 0 ]

InitSM ==
    /\ smInitial \in TradingState
    /\ sm = TradingStateMachine(smInitial)
    /\ cbLog = << >>
    /\ entered = << >>
    /\ wasReset = FALSE
    /\ nCalls = 0
    /\ last = NoCall

SMTransitionTo ==
    /\ nCalls < MaxCalls
    /\ \E target \in TradingState :
         LET r == transition_to(sm, target) IN
         /\ sm' = r.m
         /\ cbLog' = cbLog \o r.calls
         /\ entered' = IF r.ret THEN Append(entered, target) ELSE entered
         /\ last' = [ op |-> "transition_to", arg |-> target, ret |-> r.ret,
                      pre |-> sm, cbPre |-> Len(cbLog) ]
    /\ nCalls' = nCalls + 1
    /\ UNCHANGED << smInitial, wasReset, snap, adj >>
    /\ UNCHANGED << cycVars, regVars, batch, ctl, snap, adj >>

SMHandleRiskDecision ==
    /\ nCalls < MaxCalls
    /\ \E decision \in RiskDecision :
         LET r == handle_risk_decision(sm, decision) IN
         /\ sm' = r.m
         /\ cbLog' = cbLog \o r.calls
         /\ entered' = IF r.moved THEN Append(entered, r.ret) ELSE entered
         /\ last' = [ op |-> "handle_risk_decision", arg |-> decision, ret |-> r.ret,
                      pre |-> sm, cbPre |-> Len(cbLog) ]
    /\ nCalls' = nCalls + 1
    /\ UNCHANGED << smInitial, wasReset, snap, adj >>
    /\ UNCHANGED << cycVars, regVars, batch, ctl, snap, adj >>

SMReset ==
    /\ nCalls < MaxCalls
    /\ sm' = reset(sm)
    /\ wasReset' = TRUE
    /\ last' = [ op |-> "reset", arg |-> None, ret |-> None,
                 pre |-> sm, cbPre |-> Len(cbLog) ]
    /\ nCalls' = nCalls + 1
    /\ UNCHANGED << smInitial, cbLog, entered, snap, adj >>
    /\ UNCHANGED << cycVars, regVars, batch, ctl, snap, adj >>

SMSetTransitionCallback ==
    /\ nCalls < MaxCalls
    /\ sm.on_transition = None
    /\ sm' = set_transition_callback(sm, "callback")
    /\ last' = [ op |-> "set_transition_callback", arg |-> "callback", ret |-> None,
                 pre |-> sm, cbPre |-> Len(cbLog) ]
    /\ nCalls' = nCalls + 1
    /\ UNCHANGED << smInitial, cbLog, entered, wasReset, snap, adj >>
    /\ UNCHANGED << cycVars, regVars, batch, ctl, snap, adj >>

NextSM ==
    \/ SMTransitionTo
    \/ SMHandleRiskDecision
    \/ SMReset
    \/ SMSetTransitionCallback

\* ---------------------------------------------------------------- run() and its collaborators
Sites == { "market_data", "intelligence", "thesis", "quant", "risk", "order" }

\* Risk texts the risk agent may answer with.
RiskTexts ==
    { << >>,
      << "A", "P", "P", "R", "O", "V", "E", "D" >>,
      << "R", "e", "j", "e", "c", "t", "e", "d" >>,
      << "R", "E", "J", "E", "C", "T" >>,
      << "r", "e", "j", "e", "c" >>,
      << "n", "o", " ", "r", "E", "J", "e", "c", "t", "." >> }

\* Contexts a configured registry may answer with.
IntelContexts == { "No additional market intelligence available.", "block" }

NoObs ==
    [ runs |-> 0, attempts |-> 0, calls |-> [ s \in Sites |-> 0 ],
      rejections |-> 0, approvals |-> 0, exceptions |-> 0, log |-> << >> ]

\* obs.log lists the collaborator calls of the current attempt, in call order.
Called(site) == [ obs EXCEPT !.calls[site] = @ + 1, !.log = Append(@, site) ]

Step(op, site) == [ op |-> op, site |-> site, pre |-> cyc ]

InitCycle ==
    /\ \E registry \in { None, "registry" }, max_retries \in (-1) .. MaxRetries :
         cyc = TradingCycle(registry, max_retries)
    /\ obs = NoObs
    /\ cycLast = [ op |-> "none", site |-> None, pre |-> None ]

CycleRun ==
    /\ UNCHANGED << smVars, regVars, batch, ctl, snap, adj >>
    /\ cyc.pc \in { "idle", "done", "raised" }
    /\ obs.runs < MaxRuns
    /\ cyc' = run_begin(cyc)
    /\ obs' = [ NoObs EXCEPT !.runs = obs.runs + 1 ]
    /\ cycLast' = Step("run", None)

CycleLoop ==
    /\ UNCHANGED << smVars, regVars, batch, ctl, snap, adj >>
    /\ cyc.pc = "loop"
    /\ cyc' = loop_head(cyc)
    /\ obs' = IF cyc'.pc = "market_data"
              THEN [ obs EXCEPT !.attempts = @ + 1, !.log = << >> ]
              ELSE obs
    /\ cycLast' = Step("loop", None)

\* a collaborator call at `site` raises
Raises(site) ==
    /\ cyc' = raise_at(cyc, site)
    /\ obs' = [ Called(site) EXCEPT !.exceptions = @ + 1 ]
    /\ cycLast' = Step("raise", site)

CycleMarketData ==
    /\ UNCHANGED << smVars, regVars, batch, ctl, snap, adj >>
    /\ cyc.pc = "market_data"
    /\ \/ /\ cyc' = got_market_data(cyc, [ kind |-> "market_data", attempt |-> obs.attempts ])
          /\ obs' = Called("market_data")
          /\ cycLast' = Step("return", "market_data")
       \/ Raises("market_data")

CycleIntelligence ==
    /\ UNCHANGED << smVars, regVars, batch, ctl, snap, adj >>
    /\ cyc.pc = "intelligence"
    /\ IF cyc.intelligence_registry = None
       THEN /\ cyc' = got_intelligence(cyc, [ kind |-> "intelligence",
                                              attempt |-> obs.attempts, text |-> "" ])
            /\ obs' = obs
            /\ cycLast' = Step("return", "intelligence")
       ELSE \/ \E context \in IntelContexts :
                 /\ cyc' = got_intelligence(cyc, [ kind |-> "intelligence",
                                                   attempt |-> obs.attempts,
                                                   text |-> context ])
                 /\ obs' = Called("intelligence")
                 /\ cycLast' = Step("return", "intelligence")
            \/ Raises("intelligence")

CycleThesis ==
    /\ UNCHANGED << smVars, regVars, batch, ctl, snap, adj >>
    /\ cyc.pc = "thesis"
    /\ \/ /\ cyc' = got_thesis(cyc, [ kind |-> "thesis", attempt |-> obs.attempts ])
          /\ obs' = Called("thesis")
          /\ cycLast' = Step("return", "thesis")
       \/ Raises("thesis")

CycleQuant ==
    /\ UNCHANGED << smVars, regVars, batch, ctl, snap, adj >>
    /\ cyc.pc = "quant"
    /\ \/ /\ cyc' = got_quant(cyc, [ kind |-> "quant", attempt |-> obs.attempts ])
          /\ obs' = Called("quant")
          /\ cycLast' = Step("return", "quant")
       \/ Raises("quant")

CycleRisk ==
    /\ UNCHANGED << smVars, regVars, batch, ctl, snap, adj >>
    /\ cyc.pc = "risk"
    /\ \/ \E text \in RiskTexts :
            /\ cyc' = got_risk(cyc, [ kind |-> "risk", attempt |-> obs.attempts,
                                      text |-> text ])
            /\ obs' = IF cyc'.pc = "order"
                      THEN [ Called("risk") EXCEPT !.approvals = @ + 1 ]
                      ELSE [ Called("risk") EXCEPT !.rejections = @ + 1 ]
            /\ cycLast' = Step("return", "risk")
       \/ Raises("risk")

CycleOrder ==
    /\ UNCHANGED << smVars, regVars, batch, ctl, snap, adj >>
    /\ cyc.pc = "order"
    /\ \/ /\ cyc' = got_order(cyc, [ kind |-> "order", attempt |-> obs.attempts ])
          /\ obs' = Called("order")
          /\ cycLast' = Step("return", "order")
       \/ Raises("order")

NextCycle ==
    \/ CycleRun
    \/ CycleLoop
    \/ CycleMarketData
    \/ CycleIntelligence
    \/ CycleThesis
    \/ CycleQuant
    \/ CycleRisk
    \/ CycleOrder

\* ---------------------------------------------------------------- the registry and its gather
Names == { provider_name(p) : p \in ProviderIds }

TypeFilters == { NoTypes, TypeList(<< SENTIMENT, SECTOR >>), TypeList(<< MACRO >>) }

NoGobs ==
    [ invoked |-> << >>, outcomes |-> << >>, early |-> { }, peak |-> 0,
      providers |-> << >>, enabled |-> { }, toggled |-> << >> ]

NoRet == [ op |-> "none", arg |-> None, ret |-> NoResult ]

\* No batch, and no pair of controllers.
NoBatch == [ pc |-> "off" ]
NoCtl == [ pc |-> "off" ]
NoSnap == [ pc |-> "off" ]
NoAdj == [ pc |-> "off" ]

OthersUnused ==
    /\ batch = NoBatch
    /\ ctl = NoCtl
    /\ snap = NoSnap
    /\ adj = NoAdj

\* No call on the provider API yet.  live is the set of names registered and
\* not removed since.
NoApi ==
    [ op |-> "none", arg |-> None, ret |-> None,
      pre |-> IntelligenceRegistry(TRUE, MaxWorkers),
      preEnabled |-> [ p \in Objects |-> TRUE ],
      preLive |-> { }, live |-> { } ]

InitRegistry ==
    /\ \E parallel \in BOOLEAN, max_workers \in 1 .. MaxWorkers :
         reg = IntelligenceRegistry(parallel, max_workers)
    /\ enabled = [ p \in ProviderIds |-> TRUE ]
    /\ g = NoGather
    /\ gobs = NoGobs
    /\ gret = NoRet
    /\ api = NoApi

Quiet == g.pc \in { "idle", "returned" }

RegRegister ==
    /\ Quiet
    /\ \E p \in ProviderIds :
         /\ reg' = register(reg, p)
         /\ gret' = [ op |-> "register", arg |-> p, ret |-> NoResult ]
    /\ g' = NoGather
    /\ gobs' = NoGobs
    /\ UNCHANGED << enabled, api, smVars, cycVars, batch, ctl, snap, adj >>

RegUnregister ==
    /\ Quiet
    /\ \E name \in Names :
         LET u == unregister(reg, name) IN
         /\ reg' = u.r
         /\ gret' = [ op |-> "unregister", arg |-> name, ret |-> [ value |-> u.ret ] ]
    /\ g' = NoGather
    /\ gobs' = NoGobs
    /\ UNCHANGED << enabled, api, smVars, cycVars, batch, ctl, snap, adj >>

RegEnable ==
    /\ Quiet
    /\ \E name \in Names :
         LET e == enable_provider(reg, enabled, name) IN
         /\ enabled' = e.enabled
         /\ gret' = [ op |-> "enable_provider", arg |-> name, ret |-> [ value |-> e.ret ] ]
    /\ g' = NoGather
    /\ gobs' = NoGobs
    /\ UNCHANGED << reg, api, smVars, cycVars, batch, ctl, snap, adj >>

RegDisable ==
    /\ Quiet
    /\ \E name \in Names :
         LET e == disable_provider(reg, enabled, name) IN
         /\ enabled' = e.enabled
         /\ gret' = [ op |-> "disable_provider", arg |-> name, ret |-> [ value |-> e.ret ] ]
    /\ g' = NoGather
    /\ gobs' = NoGobs
    /\ UNCHANGED << reg, api, smVars, cycVars, batch, ctl, snap, adj >>

\* gobs remembers the registry as it was when the call started.
GatherStart ==
    /\ Quiet
    /\ \E stock \in Stocks, types \in TypeFilters :
         g' = gather_insights(reg, enabled, stock, types)
    /\ gobs' = [ NoGobs EXCEPT !.providers = reg.providers,
                               !.enabled = { p \in ProviderIds : enabled[p] } ]
    /\ gret' = NoRet
    /\ UNCHANGED << reg, enabled, api, smVars, cycVars, batch, ctl, snap, adj >>

Invoked(p) ==
    [ gobs EXCEPT !.invoked = Append(@, p),
                  !.peak = IF Cardinality(g'.running) > @
                           THEN Cardinality(g'.running) ELSE @ ]

Ended(outcome) == [ gobs EXCEPT !.outcomes = Append(@, outcome) ]

\* What the analyze call of provider p may end with.
Outcomes(p) ==
    { Raised(p) } \cup { Returned(p, g.stock, reading) : reading \in Readings }

SeqInvoke ==
    /\ g.pc = "sequential"
    /\ g.running = { }
    /\ g' = sequential_invoke(g)
    /\ gobs' = Invoked(g.selected[g.idx])
    /\ UNCHANGED << reg, enabled, gret, api, smVars, cycVars, batch, ctl, snap, adj >>

SeqFinish ==
    /\ g.pc = "sequential"
    /\ \E p \in g.running : \E outcome \in Outcomes(p) :
         /\ g' = gather_sequential_step(g, outcome)
         /\ gobs' = Ended(outcome)
    /\ UNCHANGED << reg, enabled, gret, api, smVars, cycVars, batch, ctl, snap, adj >>

WorkerStart ==
    /\ g.pc \in { "submitted", "as_completed" }
    /\ g.queue # << >>
    /\ Cardinality(g.running) < g.width
    /\ g' = worker_start(g)
    /\ gobs' = Invoked(Head(g.queue))
    /\ UNCHANGED << reg, enabled, gret, api, smVars, cycVars, batch, ctl, snap, adj >>

WorkerFinish ==
    /\ g.pc \in { "submitted", "as_completed" }
    /\ \E p \in g.running : \E outcome \in Outcomes(p) :
         /\ g' = worker_finish(g, outcome)
         /\ gobs' = Ended(outcome)
    /\ UNCHANGED << reg, enabled, gret, api, smVars, cycVars, batch, ctl, snap, adj >>

AsCompletedBegin ==
    /\ g.pc = "submitted"
    /\ g' = as_completed_begin(g)
    /\ gobs' = [ gobs EXCEPT !.early = g'.early ]
    /\ UNCHANGED << reg, enabled, gret, api, smVars, cycVars, batch, ctl, snap, adj >>

AsCompletedYield ==
    /\ g.pc = "as_completed"
    /\ \E p \in NextYield(g) :
         g' = as_completed_step(g, p)
    /\ UNCHANGED << reg, enabled, gobs, gret, api, smVars, cycVars, batch, ctl, snap, adj >>

\* The three callers of gather_insights(stock, context), once it returned.
GetAggregatedContext ==
    /\ g.pc = "returned"
    /\ g.types = NoTypes
    /\ gret' = [ op |-> "get_aggregated_context", arg |-> g.stock,
                 ret |-> get_aggregated_context(g.results) ]
    /\ UNCHANGED << reg, enabled, g, gobs, api, smVars, cycVars, batch, ctl, snap, adj >>

GetRiskAdjustment ==
    /\ g.pc = "returned"
    /\ g.types = NoTypes
    /\ gret' = [ op |-> "get_risk_adjustment", arg |-> g.stock,
                 ret |-> get_risk_adjustment(g.results) ]
    /\ UNCHANGED << reg, enabled, g, gobs, api, smVars, cycVars, batch, ctl, snap, adj >>

\* TradingCycle._gather_intelligence of a cycle that holds reg, and of one
\* that holds no registry.
GatherIntelligence ==
    /\ \/ /\ g.pc = "returned"
          /\ g.types = NoTypes
          /\ gret' = [ op |-> "_gather_intelligence", arg |-> "registry",
                       ret |-> gather_intelligence("registry", g.results) ]
       \/ /\ Quiet
          /\ gret' = [ op |-> "_gather_intelligence", arg |-> None,
                       ret |-> gather_intelligence(None, << >>) ]
    /\ UNCHANGED << reg, enabled, g, gobs, api, smVars, cycVars, batch, ctl, snap, adj >>

\* enable_provider and disable_provider called by another thread while a
\* gather is in flight; gobs notes the call and the providers invoked before it.
Toggled(op, name) ==
    [ gobs EXCEPT !.toggled = Append(@, [ op |-> op, name |-> name,
                                          invoked |-> { gobs.invoked[i] : i \in DOMAIN gobs.invoked } ]) ]

MidGatherEnable ==
    /\ ~ Quiet
    /\ Len(gobs.toggled) < MaxToggles
    /\ \E name \in Names :
         LET e == enable_provider(reg, enabled, name) IN
         /\ e.enabled # enabled
         /\ enabled' = e.enabled
         /\ g' = selection_after_toggle(g, e.enabled)
         /\ gobs' = Toggled("enable_provider", name)
    /\ UNCHANGED << reg, gret, api, smVars, cycVars, batch, ctl, snap, adj >>

MidGatherDisable ==
    /\ ~ Quiet
    /\ Len(gobs.toggled) < MaxToggles
    /\ \E name \in Names :
         LET e == disable_provider(reg, enabled, name) IN
         /\ e.enabled # enabled
         /\ enabled' = e.enabled
         /\ g' = selection_after_toggle(g, e.enabled)
         /\ gobs' = Toggled("disable_provider", name)
    /\ UNCHANGED << reg, gret, api, smVars, cycVars, batch, ctl, snap, adj >>

NextMidGather ==
    \/ GatherStart
    \/ SeqInvoke
    \/ SeqFinish
    \/ WorkerStart
    \/ WorkerFinish
    \/ AsCompletedBegin
    \/ AsCompletedYield
    \/ MidGatherEnable
    \/ MidGatherDisable

\* ---------------------------------------------------------------- AutoHedge.run over its stocks
\* The configured stock lists.
StockLists ==
    { << >>, << "NVDA" >>, << "XYZ", "NVDA" >>, << "NVDA", "XYZ", "NVDA" >> }

\* What the batch did so far: the stocks whose cycle was run, in call order,
\* and whether each cycle ended with the order text returned.
NoSeen == [ processed |-> << >>, succeeded |-> << >> ]

InitBatch ==
    /\ \E stocks \in StockLists, registry \in { None, "registry" },
          max_retries \in 0 .. BatchRetries :
         batch = [ b |-> AutoHedge(stocks, registry, max_retries), seen |-> NoSeen,
                   pc |-> "on" ]

BatchRun ==
    /\ batch.b.pc = "idle"
    /\ batch' = [ batch EXCEPT !.b = batch_begin(@) ]
    /\ UNCHANGED << smVars, regVars, cycVars, ctl, snap, adj >>

\* One turn of the loop: the cycle for the next stock is built and its run()
\* starts, or the loop ends.
BatchNext ==
    /\ batch.b.pc = "for"
    /\ LET b == batch_next(batch.b) IN
       IF b.pc = "cycle"
       THEN /\ batch' = [ batch EXCEPT !.b = b,
                             !.seen.processed = Append(@, b.stocks[b.idx]) ]
            /\ cyc' = run_begin(batch_cycle(b))
            /\ obs' = [ NoObs EXCEPT !.runs = 1 ]
            /\ cycLast' = [ op |-> "run", site |-> None, pre |-> batch_cycle(b) ]
       ELSE /\ batch' = [ batch EXCEPT !.b = b ]
            /\ UNCHANGED cycVars
    /\ UNCHANGED << smVars, regVars, ctl, snap, adj >>

\* cycle.run returned.
BatchCollect ==
    /\ batch.b.pc = "cycle"
    /\ cyc.pc = "done"
    /\ batch' = [ batch EXCEPT
                    !.b = batch_collect(@, cyc.result),
                    !.seen.succeeded =
                        Append(@, cycLast.op = "return" /\ cycLast.site = "order") ]
    /\ UNCHANGED << smVars, regVars, cycVars, ctl, snap, adj >>

NextBatch ==
    \/ BatchRun
    \/ BatchNext
    \/ CycleLoop
    \/ CycleMarketData
    \/ CycleIntelligence
    \/ CycleThesis
    \/ CycleQuant
    \/ CycleRisk
    \/ CycleOrder
    \/ BatchCollect

\* ---------------------------------------------------------------- two controllers side by side
Controllers == { 1, 2 }

\* What the collaborators answer: the risk agent approves or rejects.
CtlValues(c, n) ==
    IF c.pc = "risk"
    THEN { [ kind |-> "risk", attempt |-> n, text |-> << "O", "K" >> ],
           [ kind |-> "risk", attempt |-> n, text |-> << "R", "E", "J", "E", "C", "T" >> ] }
    ELSE IF c.pc = "intelligence"
    THEN { [ kind |-> "intelligence", attempt |-> n, text |-> "" ] }
    ELSE { [ kind |-> c.pc, attempt |-> n ] }

InitCtl ==
    ctl = [ pc |-> "on",
            objs |-> [ i \in Controllers |-> TradingCycle(None, CtlRetries) ],
            attempts |-> [ i \in Controllers |-> 0 ],
            who |-> 0,
            pre |-> [ i \in Controllers |-> TradingCycle(None, CtlRetries) ] ]

CtlStep(i, objs, attempts) ==
    ctl' = [ ctl EXCEPT !.objs = objs, !.attempts = attempts, !.who = i, !.pre = ctl.objs ]

CtlRun ==
    /\ \E i \in Controllers :
         /\ ctl.objs[i].pc = "idle"
         /\ CtlStep(i, store(ctl.objs, i, run_begin(ctl.objs[i])), ctl.attempts)
    /\ UNCHANGED << smVars, regVars, cycVars, batch, snap, adj >>

CtlLoop ==
    /\ \E i \in Controllers :
         /\ ctl.objs[i].pc = "loop"
         /\ LET c == loop_head(ctl.objs[i]) IN
            CtlStep(i, store(ctl.objs, i, c),
                    IF c.pc = "market_data"
                    THEN [ ctl.attempts EXCEPT ![i] = @ + 1 ]
                    ELSE ctl.attempts)
    /\ UNCHANGED << smVars, regVars, cycVars, batch, snap, adj >>

CtlReturn ==
    /\ \E i \in Controllers :
         /\ ctl.objs[i].pc \in Sites
         /\ \E value \in CtlValues(ctl.objs[i], ctl.attempts[i]) :
              CtlStep(i, store(ctl.objs, i, resume(ctl.objs[i], value)), ctl.attempts)
    /\ UNCHANGED << smVars, regVars, cycVars, batch, snap, adj >>

CtlRaise ==
    /\ \E i \in Controllers :
         /\ ctl.objs[i].pc \in Sites
         /\ CtlStep(i, store(ctl.objs, i, raise_at(ctl.objs[i], ctl.objs[i].pc)),
                    ctl.attempts)
    /\ UNCHANGED << smVars, regVars, cycVars, batch, snap, adj >>

NextCtl ==
    \/ CtlRun
    \/ CtlLoop
    \/ CtlReturn
    \/ CtlRaise

\* ---------------------------------------------------------------- the history property
\* snap.own and snap.expected are what the machine and the caller believe
\* their lists hold, kept as values.
InitSnap ==
    snap = [ pc |-> "on",
             heap |-> << << INITIALIZATION >> >>,
             o |-> [ TradingStateMachine(INITIALIZATION) EXCEPT !.history = 1 ],
             held |-> << >>,
             own |-> TradingStateMachine(INITIALIZATION),
             expected |-> << >>,
             steps |-> 0,
             op |-> "none" ]

SnapHistory ==
    /\ snap.steps < MaxSnapSteps
    /\ Len(snap.heap) < MaxLists
    /\ LET r == history(snap.heap, snap.o) IN
       snap' = [ snap EXCEPT !.heap = r.heap,
                             !.held = Append(@, r.ret),
                             !.expected = Append(@, snap.own.history),
                             !.steps = @ + 1,
                             !.op = "history" ]
    /\ UNCHANGED << smVars, cycVars, regVars, batch, ctl, adj >>

SnapChange ==
    /\ snap.steps < MaxSnapSteps
    /\ \E i \in DOMAIN snap.held : \E change \in ListChanges :
         snap' = [ snap EXCEPT !.heap = list_change(@, snap.held[i], change),
                               !.expected[i] = ChangedValue(@, change),
                               !.steps = @ + 1,
                               !.op = "change" ]
    /\ UNCHANGED << smVars, cycVars, regVars, batch, ctl, adj >>

SnapTransitionTo ==
    /\ snap.steps < MaxSnapSteps
    /\ \E target \in TradingState :
         LET t == transition_to_in_place(snap.heap, snap.o, target) IN
         snap' = [ snap EXCEPT !.heap = t.heap,
                               !.o = t.o,
                               !.own = transition_to(@, target).m,
                               !.steps = @ + 1,
                               !.op = "transition_to" ]
    /\ UNCHANGED << smVars, cycVars, regVars, batch, ctl, adj >>

SnapReset ==
    /\ snap.steps < MaxSnapSteps
    /\ Len(snap.heap) < MaxLists
    /\ LET t == reset_rebinds(snap.heap, snap.o) IN
       snap' = [ snap EXCEPT !.heap = t.heap,
                             !.o = t.o,
                             !.own = reset(@),
                             !.steps = @ + 1,
                             !.op = "reset" ]
    /\ UNCHANGED << smVars, cycVars, regVars, batch, ctl, adj >>

NextSnap ==
    \/ SnapHistory
    \/ SnapChange
    \/ SnapTransitionTo
    \/ SnapReset

\* ---------------------------------------------------------------- get_risk_adjustment on given insights
\* Readings in tenths, at and inside the ends of their ranges and outside them.
AdjReadings ==
    { [ confidence |-> 0, risk_impact |-> 10 ],
      [ confidence |-> 10, risk_impact |-> 10 ],
      [ confidence |-> 10, risk_impact |-> -10 ],
      [ confidence |-> 3, risk_impact |-> -10 ],
      [ confidence |-> 7, risk_impact |-> 4 ],
      [ confidence |-> 12, risk_impact |-> 5 ],
      [ confidence |-> 5, risk_impact |-> 15 ] }

InsightLists ==
    UNION { [ 1 .. n -> { IntelligenceResult("p1", "NVDA", reading) :
                            reading \in AdjReadings } ] : n \in 0 .. MaxInsights }

InitAdj ==
    \E insights \in InsightLists :
        adj = [ pc |-> "gathered", insights |-> insights, ret |-> Zero ]

AdjReturn ==
    /\ adj.pc = "gathered"
    /\ adj' = [ adj EXCEPT !.pc = "returned",
                           !.ret = get_risk_adjustment(adj.insights) ]
    /\ UNCHANGED << smVars, cycVars, regVars, batch, ctl, snap >>

NextAdj ==
    \/ AdjReturn

\* ---------------------------------------------------------------- the provider API of the registry
AllNames == Names \cup { "unknown" }

ApiCall(op, arg, ret, live) ==
    [ op |-> op, arg |-> arg, ret |-> ret, pre |-> reg, preEnabled |-> enabled,
      preLive |-> api.live, live |-> live ]

ApiRegister ==
    /\ \E p \in Objects :
         /\ reg' = register(reg, p)
         /\ api' = ApiCall("register", p, register_returns(reg, p),
                           api.live \cup { provider_name(p) })
    /\ UNCHANGED << enabled, g, gobs, gret, smVars, cycVars, batch, ctl, snap, adj >>

ApiUnregister ==
    /\ \E name \in AllNames :
         LET u == unregister(reg, name) IN
         /\ reg' = u.r
         /\ api' = ApiCall("unregister", name, u.ret, api.live \ { name })
    /\ UNCHANGED << enabled, g, gobs, gret, smVars, cycVars, batch, ctl, snap, adj >>

ApiClear ==
    /\ reg' = clear(reg)
    /\ api' = ApiCall("clear", None, None, { })
    /\ UNCHANGED << enabled, g, gobs, gret, smVars, cycVars, batch, ctl, snap, adj >>

ApiEnable ==
    /\ \E name \in AllNames :
         LET e == enable_provider(reg, enabled, name) IN
         /\ enabled' = e.enabled
         /\ api' = ApiCall("enable_provider", name, e.ret, api.live)
    /\ UNCHANGED << reg, g, gobs, gret, smVars, cycVars, batch, ctl, snap, adj >>

ApiDisable ==
    /\ \E name \in AllNames :
         LET e == disable_provider(reg, enabled, name) IN
         /\ enabled' = e.enabled
         /\ api' = ApiCall("disable_provider", name, e.ret, api.live)
    /\ UNCHANGED << reg, g, gobs, gret, smVars, cycVars, batch, ctl, snap, adj >>

NextRegistryApi ==
    \/ ApiRegister
    \/ ApiUnregister
    \/ ApiClear
    \/ ApiEnable
    \/ ApiDisable

\* ---------------------------------------------------------------- registering between sequential gathers
ReRegister ==
    /\ Quiet
    /\ \E p \in Objects :
         /\ reg' = register(reg, p)
         /\ api' = ApiCall("register", p, register_returns(reg, p),
                           api.live \cup { provider_name(p) })
    /\ g' = NoGather
    /\ gobs' = NoGobs
    /\ gret' = NoRet
    /\ UNCHANGED << enabled, smVars, cycVars, batch, ctl, snap, adj >>

NextReRegister ==
    \/ ReRegister
    \/ GatherStart
    \/ SeqInvoke
    \/ SeqFinish

NextRegistry ==
    \/ RegRegister
    \/ RegUnregister
    \/ RegEnable
    \/ RegDisable
    \/ GatherStart
    \/ SeqInvoke
    \/ SeqFinish
    \/ WorkerStart
    \/ WorkerFinish
    \/ AsCompletedBegin
    \/ AsCompletedYield
    \/ GetAggregatedContext
    \/ GetRiskAdjustment
    \/ GatherIntelligence

Init == InitSM /\ InitCycle /\ InitRegistry /\ OthersUnused

Next ==
    \/ NextSM
    \/ NextCycle
    \/ NextRegistry
    \/ NextRegistryApi
    \/ NextMidGather
    \/ NextBatch
    \/ NextCtl
    \/ NextSnap
    \/ NextAdj
    \/ NextReRegister

Spec == Init /\ [][Next]_vars

\* A registry that is never used.
RegistryUnused ==
    /\ reg = IntelligenceRegistry(TRUE, MaxWorkers)
    /\ enabled = [ p \in ProviderIds |-> TRUE ]
    /\ g = NoGather
    /\ gobs = NoGobs
    /\ gret = NoRet
    /\ api = NoApi

\* The state machine alone, next to a cycle that is never run.
InitSMAlone ==
    /\ InitSM
    /\ cyc = TradingCycle(None, MaxRetries)
    /\ obs = NoObs
    /\ cycLast = [ op |-> "none", site |-> None, pre |-> None ]
    /\ RegistryUnused
    /\ OthersUnused

SpecSM == InitSMAlone /\ [][NextSM]_vars

\* The cycle alone, next to a state machine that is never called.
InitCycleAlone ==
    /\ InitCycle
    /\ smInitial = INITIALIZATION
    /\ sm = TradingStateMachine(smInitial)
    /\ cbLog = << >>
    /\ entered = << >>
    /\ wasReset = FALSE
    /\ nCalls = 0
    /\ last = NoCall
    /\ RegistryUnused
    /\ OthersUnused

SpecCycle == InitCycleAlone /\ [][NextCycle]_vars

\* The cycle with collaborators that always answer: a call that was made
\* returns or raises, and the interpreter goes on with the loop. Whether run()
\* is called again is left to the caller.
SpecCycleFair ==
    /\ SpecCycle
    /\ WF_vars(CycleLoop)
    /\ WF_vars(CycleMarketData)
    /\ WF_vars(CycleIntelligence)
    /\ WF_vars(CycleThesis)
    /\ WF_vars(CycleQuant)
    /\ WF_vars(CycleRisk)
    /\ WF_vars(CycleOrder)

\* The registry alone.
InitRegistryAlone ==
    /\ InitRegistry
    /\ smInitial = INITIALIZATION
    /\ sm = TradingStateMachine(smInitial)
    /\ cbLog = << >>
    /\ entered = << >>
    /\ wasReset = FALSE
    /\ nCalls = 0
    /\ last = NoCall
    /\ cyc = TradingCycle(None, MaxRetries)
    /\ obs = NoObs
    /\ cycLast = [ op |-> "none", site |-> None, pre |-> None ]
    /\ OthersUnused

SpecRegistry == InitRegistryAlone /\ [][NextRegistry]_vars

\* The provider API alone, over four provider objects.
InitRegistryApiAlone ==
    /\ reg = IntelligenceRegistry(TRUE, MaxWorkers)
    /\ enabled = [ p \in Objects |-> TRUE ]
    /\ g = NoGather
    /\ gobs = NoGobs
    /\ gret = NoRet
    /\ api = NoApi
    /\ smInitial = INITIALIZATION
    /\ sm = TradingStateMachine(smInitial)
    /\ cbLog = << >>
    /\ entered = << >>
    /\ wasReset = FALSE
    /\ nCalls = 0
    /\ last = NoCall
    /\ cyc = TradingCycle(None, MaxRetries)
    /\ obs = NoObs
    /\ cycLast = [ op |-> "none", site |-> None, pre |-> None ]
    /\ OthersUnused

SpecRegistryApi == InitRegistryApiAlone /\ [][NextRegistryApi]_vars

\* A registry in sequential mode, its providers registered and registered
\* again between gathers.
InitReRegisterAlone ==
    /\ reg = IntelligenceRegistry(FALSE, MaxWorkers)
    /\ enabled = [ p \in Objects |-> TRUE ]
    /\ g = NoGather
    /\ gobs = NoGobs
    /\ gret = NoRet
    /\ api = NoApi
    /\ smInitial = INITIALIZATION
    /\ sm = TradingStateMachine(smInitial)
    /\ cbLog = << >>
    /\ entered = << >>
    /\ wasReset = FALSE
    /\ nCalls = 0
    /\ last = NoCall
    /\ cyc = TradingCycle(None, MaxRetries)
    /\ obs = NoObs
    /\ cycLast = [ op |-> "none", site |-> None, pre |-> None ]
    /\ OthersUnused

SpecReRegister == InitReRegisterAlone /\ [][NextReRegister]_vars

\* Gathers on a registry of three providers, with flags changed meanwhile.
InitMidGatherAlone ==
    /\ \E parallel \in BOOLEAN :
         reg = register(register(register(
                   IntelligenceRegistry(parallel, MaxWorkers), "p1"), "p2"), "p3")
    /\ enabled = [ p \in ProviderIds |-> TRUE ]
    /\ g = NoGather
    /\ gobs = NoGobs
    /\ gret = NoRet
    /\ api = NoApi
    /\ smInitial = INITIALIZATION
    /\ sm = TradingStateMachine(smInitial)
    /\ cbLog = << >>
    /\ entered = << >>
    /\ wasReset = FALSE
    /\ nCalls = 0
    /\ last = NoCall
    /\ cyc = TradingCycle(None, MaxRetries)
    /\ obs = NoObs
    /\ cycLast = [ op |-> "none", site |-> None, pre |-> None ]
    /\ OthersUnused

SpecMidGather == InitMidGatherAlone /\ [][NextMidGather]_vars

\* AutoHedge.run alone.
InitBatchAlone ==
    /\ InitBatch
    /\ ctl = NoCtl
    /\ snap = NoSnap
    /\ adj = NoAdj
    /\ cyc = TradingCycle(None, 0)
    /\ obs = NoObs
    /\ cycLast = [ op |-> "none", site |-> None, pre |-> None ]
    /\ smInitial = INITIALIZATION
    /\ sm = TradingStateMachine(smInitial)
    /\ cbLog = << >>
    /\ entered = << >>
    /\ wasReset = FALSE
    /\ nCalls = 0
    /\ last = NoCall
    /\ RegistryUnused

SpecBatch == InitBatchAlone /\ [][NextBatch]_vars

\* Two controllers alone.
InitCtlAlone ==
    /\ InitCtl
    /\ batch = NoBatch
    /\ snap = NoSnap
    /\ adj = NoAdj
    /\ cyc = TradingCycle(None, 0)
    /\ obs = NoObs
    /\ cycLast = [ op |-> "none", site |-> None, pre |-> None ]
    /\ smInitial = INITIALIZATION
    /\ sm = TradingStateMachine(smInitial)
    /\ cbLog = << >>
    /\ entered = << >>
    /\ wasReset = FALSE
    /\ nCalls = 0
    /\ last = NoCall
    /\ RegistryUnused

SpecCtl == InitCtlAlone /\ [][NextCtl]_vars

\* The history property alone.
InitSnapAlone ==
    /\ InitSnap
    /\ adj = NoAdj
    /\ batch = NoBatch
    /\ ctl = NoCtl
    /\ cyc = TradingCycle(None, 0)
    /\ obs = NoObs
    /\ cycLast = [ op |-> "none", site |-> None, pre |-> None ]
    /\ smInitial = INITIALIZATION
    /\ sm = TradingStateMachine(smInitial)
    /\ cbLog = << >>
    /\ entered = << >>
    /\ wasReset = FALSE
    /\ nCalls = 0
    /\ last = NoCall
    /\ RegistryUnused

SpecSnap == InitSnapAlone /\ [][NextSnap]_vars

\* get_risk_adjustment alone.
InitAdjAlone ==
    /\ InitAdj
    /\ snap = NoSnap
    /\ batch = NoBatch
    /\ ctl = NoCtl
    /\ cyc = TradingCycle(None, 0)
    /\ obs = NoObs
    /\ cycLast = [ op |-> "none", site |-> None, pre |-> None ]
    /\ smInitial = INITIALIZATION
    /\ sm = TradingStateMachine(smInitial)
    /\ cbLog = << >>
    /\ entered = << >>
    /\ wasReset = FALSE
    /\ nCalls = 0
    /\ last = NoCall
    /\ RegistryUnused

SpecAdj == InitAdjAlone /\ [][NextAdj]_vars


\* ---------------------------------------------------------------- claims on the state machine
\* The allowed-successor table as the specification states it.
AllowedSuccessors(S) ==
    CASE S = INITIALIZATION    -> { THESIS_GENERATION }
      [] S = THESIS_GENERATION -> { QUANT_ANALYSIS }
      [] S = QUANT_ANALYSIS    -> { RISK_ASSESSMENT }
      [] S = RISK_ASSESSMENT   -> { ORDER_GENERATION, THESIS_GENERATION }
      [] S = ORDER_GENERATION  -> { ORDER_EXECUTION }
      [] S = ORDER_EXECUTION   -> { MONITORING }
      [] S = MONITORING        -> { COMPLETE, THESIS_GENERATION }
      [] S = COMPLETE          -> { }

\* C1: transition_to(T) from stage S returns True iff T is an allowed successor
\* of S; when it returns False the current stage and the history are as before
\* the call (and the call returned a value: nothing was raised).
C1_TransitionIffAllowed ==
    last.op = "transition_to" =>
        /\ last.ret \in BOOLEAN
        /\ last.ret <=> (last.arg \in AllowedSuccessors(last.pre.state))
        /\ ~ last.ret => /\ sm.state = last.pre.state
                         /\ sm.history = last.pre.history

C1_Witness ==
    /\ last.op = "transition_to"
    /\ last.pre.state = INITIALIZATION
    /\ last.arg = COMPLETE
    /\ last.ret = FALSE
    /\ Len(sm.history) = 1

\* C6: for a machine constructed with the default initial stage, the history
\* starts with Init, every adjacent pair of it is an edge of the table, its last
\* element is the current stage, and a move made by handle_risk_decision is an
\* edge of the table.
C6_HistoryIsTablePath ==
    smInitial = INITIALIZATION =>
        /\ sm.history[1] = INITIALIZATION
        /\ \A i \in 1 .. (Len(sm.history) - 1) :
               sm.history[i + 1] \in AllowedSuccessors(sm.history[i])
        /\ sm.history[Len(sm.history)] = sm.state
        /\ (last.op = "handle_risk_decision" /\ sm # last.pre)
               => sm.state \in AllowedSuccessors(last.pre.state)

C6_Witness ==
    /\ smInitial = INITIALIZATION
    /\ wasReset
    /\ last.op = "handle_risk_decision"
    /\ last.arg = REJECTED
    /\ sm.history = << INITIALIZATION, THESIS_GENERATION, QUANT_ANALYSIS,
                       RISK_ASSESSMENT, THESIS_GENERATION >>

\* C7: from RiskAssessment, handle_risk_decision(Approved) moves to
\* OrderGeneration and handle_risk_decision(Rejected) to ThesisGeneration; the
\* returned stage is the new current stage and exactly one entry is appended to
\* the history.
C7_RiskDecisionMoves ==
    (last.op = "handle_risk_decision" /\ last.pre.state = RISK_ASSESSMENT) =>
        /\ last.arg = APPROVED => sm.state = ORDER_GENERATION
        /\ last.arg = REJECTED => sm.state = THESIS_GENERATION
        /\ last.ret = sm.state
        /\ sm.history = Append(last.pre.history, sm.state)

C7_Witness ==
    /\ last.op = "handle_risk_decision"
    /\ last.pre.state = RISK_ASSESSMENT
    /\ last.arg = APPROVED
    /\ sm.state = ORDER_GENERATION

\* C8: from any stage other than RiskAssessment, handle_risk_decision returns
\* the current stage and changes neither the current stage, nor the history,
\* nor the number of callback invocations.
C8_RiskDecisionNoOp ==
    (last.op = "handle_risk_decision" /\ last.pre.state # RISK_ASSESSMENT) =>
        /\ last.ret = last.pre.state
        /\ sm.state = last.pre.state
        /\ sm.history = last.pre.history
        /\ Len(cbLog) = last.cbPre

C8_Witness ==
    /\ last.op = "handle_risk_decision"
    /\ last.pre.state = MONITORING
    /\ last.arg = REJECTED
    /\ sm.on_transition # None

\* C9: as long as the machine was not reset, after k successful transitions
\* (and any number of failed ones) the history has k+1 entries, its first entry
\* is the initial stage the machine was constructed with, and the rest are the
\* stages entered, in order.
C9_HistoryLength ==
    ~ wasReset =>
        /\ Len(sm.history) = Len(entered) + 1
        /\ sm.history[1] = smInitial
        /\ sm.history = << smInitial >> \o entered

C9_Witness ==
    /\ ~ wasReset
    /\ smInitial = QUANT_ANALYSIS
    /\ Len(entered) = 2
    /\ nCalls >= 4
    /\ last.op = "transition_to"
    /\ last.ret = FALSE

\* C10: reset() sets the current stage to the initial stage the machine was
\* constructed with and the history to that single entry.
C10_ResetToConfiguredInitial ==
    last.op = "reset" =>
        /\ sm.state = smInitial
        /\ sm.history = << smInitial >>

\* ---------------------------------------------------------------- claims on the trading cycle
\* C2: with max_retries = N >= 1, a risk text that parses Rejected in every
\* attempt and no collaborator raising, run() makes exactly N attempts (N
\* thesis, N quant and N risk generations), generates no order and returns
\* None; it never starts an (N+1)-th attempt.
C2_ExactlyNAttempts ==
    ( /\ cyc.max_retries >= 1
      /\ obs.runs >= 1
      /\ obs.exceptions = 0
      /\ obs.approvals = 0 ) =>
        /\ obs.attempts <= cyc.max_retries
        /\ obs.calls["order"] = 0
        /\ cyc.pc = "done" =>
              /\ obs.attempts = cyc.max_retries
              /\ obs.calls["thesis"] = cyc.max_retries
              /\ obs.calls["quant"] = cyc.max_retries
              /\ obs.calls["risk"] = cyc.max_retries
              /\ obs.rejections = cyc.max_retries
              /\ cyc.result = NoResult

C2_Witness ==
    /\ cyc.pc = "done"
    /\ cyc.max_retries = 3
    /\ obs.rejections = 3
    /\ obs.exceptions = 0
    /\ obs.approvals = 0
    /\ cyc.result = NoResult

\* C3: whatever the outcome of each attempt (approval, rejection, an exception
\* at any stage), one run() call starts at most max_retries attempts and
\* invokes thesis generation at most max_retries times (for a max_retries that
\* is a count, max_retries >= 0; a negative one gives no attempt at all).
C3_AtMostMaxRetriesAttempts ==
    cyc.max_retries >= 0 =>
        /\ obs.attempts <= cyc.max_retries
        /\ obs.calls["thesis"] <= cyc.max_retries

C3_Witness ==
    /\ cyc.max_retries = 3
    /\ obs.calls["thesis"] = 3
    /\ obs.rejections >= 1
    /\ obs.approvals >= 1
    /\ obs.exceptions >= 1

\* C4: an exception raised by a collaborator call never leaves run(); it adds
\* exactly one to the retry counter, as a rejection does, and run() then goes
\* back to the loop when budget is left and returns None when it is not.
C4_ExceptionsContained ==
    /\ cyc.pc # "raised"
    /\ cycLast.op = "raise" =>
          /\ cyc.retry_count = cycLast.pre.retry_count + 1
          /\ IF cyc.retry_count < cyc.max_retries
             THEN cyc.pc = "loop"
             ELSE cyc.pc = "done" /\ cyc.result = NoResult
    /\ ( /\ cycLast.op = "return"
         /\ cycLast.site = "risk"
         /\ cyc.risk_decision = REJECTED ) =>
          cyc.retry_count = cycLast.pre.retry_count + 1

C4_Witness ==
    /\ cycLast.op = "raise"
    /\ cycLast.site = "market_data"
    /\ cycLast.pre.retry_count = 1
    /\ cyc.pc = "loop"

\* C5: run() returns a complete record or None: a returned record holds the
\* thesis, quant, risk and order texts of the attempt that returned it, its
\* risk text parses Approved, its risk_decision is 'approved', its state is
\* 'complete' and the state machine is at Complete.
C5_RecordComplete ==
    cyc.pc = "done" =>
        \/ cyc.result = NoResult
        \/ /\ cyc.result.thesis = [ kind |-> "thesis", attempt |-> obs.attempts ]
           /\ cyc.result.quant_analysis = [ kind |-> "quant", attempt |-> obs.attempts ]
           /\ cyc.result.risk_assessment.kind = "risk"
           /\ cyc.result.risk_assessment.attempt = obs.attempts
           /\ cyc.result.order = [ kind |-> "order", attempt |-> obs.attempts ]
           /\ parse_risk_decision(cyc.result.risk_assessment.text) = APPROVED
           /\ cyc.result.risk_decision = "approved"
           /\ cyc.state_machine.state = COMPLETE
           /\ cyc.result.state = "complete"

C5_Witness ==
    /\ cyc.pc = "done"
    /\ cyc.result # NoResult
    /\ obs.attempts = 3
    /\ obs.rejections = 1
    /\ obs.exceptions = 1
    /\ cyc.state_machine.history[Len(cyc.state_machine.history)] = COMPLETE

\* ---------------------------------------------------------------- claims C11, C12
FullPath ==
    << THESIS_GENERATION, QUANT_ANALYSIS, RISK_ASSESSMENT, ORDER_GENERATION,
       ORDER_EXECUTION, MONITORING, COMPLETE >>

\* C11: is_complete() is true iff the current stage is Complete; from Complete
\* every transition_to returns False and every handle_risk_decision is a no-op
\* (only reset() leaves Complete); the full sequence from Init to Complete
\* succeeds step by step and ends with is_complete() and a history of length 8.
C11_CompleteAbsorbing ==
    /\ is_complete(sm) <=> (sm.history[Len(sm.history)] = COMPLETE)
    /\ (last.op # "none" /\ last.op # "reset" /\ last.pre.state = COMPLETE) =>
          /\ is_complete(sm)
          /\ sm.history = last.pre.history
          /\ last.op = "transition_to" => last.ret = FALSE
          /\ last.op = "handle_risk_decision" => last.ret = COMPLETE
    /\ (smInitial = INITIALIZATION /\ ~ wasReset /\ entered = FullPath) =>
          /\ is_complete(sm)
          /\ Len(sm.history) = 8

C11_Witness ==
    /\ smInitial = INITIALIZATION
    /\ entered = FullPath
    /\ nCalls = 8
    /\ last.op = "transition_to"
    /\ last.arg = THESIS_GENERATION
    /\ last.pre.state = COMPLETE
    /\ is_complete(sm)

\* The stage calls of the current attempt, in call order.
StageCalls ==
    SelectSeq(obs.log, LAMBDA s : s \in { "thesis", "quant", "risk", "order" })

IsPrefix(s, t) == Len(s) <= Len(t) /\ s = SubSeq(t, 1, Len(s))

\* C12: within an attempt the stage calls occur in the order thesis, quant,
\* risk, order; quant is called only after this attempt's thesis returned, risk
\* only after this attempt's quant returned, and order only after this
\* attempt's risk text returned and parsed Approved.
C12_StageOrder ==
    /\ IsPrefix(StageCalls, << "thesis", "quant", "risk", "order" >>)
    /\ InList("quant", obs.log) =>
          cyc.thesis = [ kind |-> "thesis", attempt |-> obs.attempts ]
    /\ InList("risk", obs.log) =>
          cyc.quant_analysis = [ kind |-> "quant", attempt |-> obs.attempts ]
    /\ InList("order", obs.log) =>
          /\ cyc.risk_assessment.kind = "risk"
          /\ cyc.risk_assessment.attempt = obs.attempts
          /\ parse_risk_decision(cyc.risk_assessment.text) = APPROVED
          /\ cyc.risk_decision = APPROVED

C12_Witness ==
    /\ obs.attempts = 2
    /\ obs.rejections = 1
    /\ StageCalls = << "thesis", "quant", "risk", "order" >>
    /\ cyc.pc = "done"

\* ---------------------------------------------------------------- claims on the registry
\* The position of x in the list lst, 0 when absent.
IndexOf(lst, x) ==
    IF \E i \in DOMAIN lst : lst[i] = x
    THEN CHOOSE i \in DOMAIN lst : lst[i] = x
    ELSE 0

Range(lst) == { lst[i] : i \in DOMAIN lst }

\* The analyze calls of the gather that returned, and those that raised.
OkOutcomes == { o \in Range(gobs.outcomes) : o.ok }
FailedOutcomes == { o \in Range(gobs.outcomes) : ~ o.ok }

\* The gather took the parallel path / the sequential path.
ParallelMode == reg.parallel /\ Len(g.selected) > 1
SequentialMode == g.pc # "idle" /\ g.selected # << >> /\ ~ ParallelMode

\* The provider object behind a result.
ProviderOf(result) ==
    CHOOSE p \in ProviderIds : provider_name(p) = result.provider_name

\* C13: when analyze calls of selected providers raise, gather_insights does
\* not raise, and it returns exactly the results of the selected providers
\* whose analyze returned, each once and none from a failing provider, in
\* sequential and in parallel mode.
C13_FailuresContained ==
    /\ g.pc # "raised"
    /\ g.pc = "returned" =>
         /\ Range(g.results) = { o.result : o \in OkOutcomes }
         /\ Len(g.results) = Cardinality(OkOutcomes)
         /\ { o.provider : o \in Range(gobs.outcomes) } = Range(g.selected)
         /\ Len(gobs.outcomes) = Len(g.selected)
         /\ \A o \in FailedOutcomes :
              \A i \in DOMAIN g.results :
                g.results[i].provider_name # provider_name(o.provider)

\* A gather returned the result of one provider after another provider raised.
C13_Witness ==
    /\ g.pc = "returned"
    /\ FailedOutcomes # { }
    /\ Len(g.results) = 1
    /\ Len(g.selected) = 2

\* C14: in parallel mode gather_insights returns only after every submitted
\* analyze call returned or raised: at its return none is running or waiting
\* and the list holds one entry for every call that returned.
C14_FullJoin ==
    (g.pc = "returned" /\ ParallelMode) =>
        /\ g.running = { }
        /\ g.queue = << >>
        /\ Range(gobs.invoked) = Range(g.selected)
        /\ { o.provider : o \in Range(gobs.outcomes) } = Range(g.selected)
        /\ Len(g.results) = Cardinality(OkOutcomes)

\* A parallel gather over three providers returned, one of them having raised.
C14_Witness ==
    /\ g.pc = "returned"
    /\ ParallelMode
    /\ Len(g.selected) = 3
    /\ Len(g.results) = 2

\* C15: during a parallel gather never more than max_workers analyze calls
\* run at once, however many providers are selected.
C15_PoolBounded ==
    (g.pc \in { "submitted", "as_completed", "returned" } /\ ParallelMode) =>
        /\ Cardinality(g.running) <= reg.max_workers
        /\ gobs.peak <= reg.max_workers

\* max_workers calls run while a further selected provider waits for a worker.
C15_Witness ==
    /\ g.pc \in { "submitted", "as_completed" }
    /\ Cardinality(g.running) = reg.max_workers
    /\ g.queue # << >>

\* The registered providers that were enabled when the gather started, accept
\* its stock and pass its type filter.
Eligible ==
    { p \in Range(gobs.providers) :
        /\ p \in gobs.enabled
        /\ validate_stock(p, g.stock)
        /\ g.types.is_none \/ \E i \in DOMAIN g.types.list :
                                 g.types.list[i] = intelligence_type(p) }

\* C16: gather_insights invokes analyze on exactly the registered providers
\* that at the start of the call are enabled, accept the stock and pass the
\* type filter; no other provider is ever invoked, and with an empty selection
\* it returns an empty list without invoking anything.
C16_ExactlyTheEligible ==
    g.pc # "idle" =>
        /\ Range(gobs.invoked) \subseteq Eligible
        /\ Len(gobs.invoked) = Cardinality(Range(gobs.invoked))
        /\ g.pc = "returned" => Range(gobs.invoked) = Eligible
        /\ Eligible = { } =>
             g.pc = "returned" /\ g.results = << >> /\ gobs.invoked = << >>

\* A gather returned having invoked a provider, next to a disabled one, one
\* that rejects the stock and one the filter leaves out.
C16_Witness ==
    /\ g.pc = "returned"
    /\ gobs.invoked # << >>
    /\ \E p \in Range(gobs.providers) : p \notin gobs.enabled
    /\ \E p \in Range(gobs.providers) : ~ validate_stock(p, g.stock)
    /\ ~ g.types.is_none
    /\ \E p \in Range(gobs.providers) :
         ~ InList(intelligence_type(p), g.types.list)

\* The providers in lst stand in registration order.
InRegistrationOrder(lst) ==
    \A i, j \in DOMAIN lst :
        i < j => IndexOf(gobs.providers, lst[i]) < IndexOf(gobs.providers, lst[j])

\* C17: with parallel mode disabled or at most one provider selected, the
\* selected providers are invoked one at a time, in registration order, and
\* the results stand in the registration order of their providers.
C17_SequentialInOrder ==
    SequentialMode =>
        /\ Cardinality(g.running) <= 1
        /\ gobs.peak <= 1
        /\ Len(gobs.invoked) - Len(gobs.outcomes) = Cardinality(g.running)
        /\ InRegistrationOrder(gobs.invoked)
        /\ \A i \in DOMAIN gobs.outcomes : gobs.outcomes[i].provider = gobs.invoked[i]
        /\ InRegistrationOrder([ i \in DOMAIN g.results |-> ProviderOf(g.results[i]) ])

\* With parallel mode disabled, three providers were invoked and all returned.
C17_Witness ==
    /\ g.pc = "returned"
    /\ ~ reg.parallel
    /\ Len(g.results) = 3
    /\ gobs.peak = 1

\* The providers of the results, and the providers whose analyze returned in
\* the order in which their calls ended.
ResultProviders == [ i \in DOMAIN g.results |-> ProviderOf(g.results[i]) ]
CompletionOrder ==
    LET done == SelectSeq(gobs.outcomes, LAMBDA o : o.ok)
    IN  [ i \in DOMAIN done |-> done[i].provider ]

\* C18, as stated: in parallel mode the returned list is in completion order.
C18_CompletionOrder ==
    (g.pc = "returned" /\ ParallelMode) => ResultProviders = CompletionOrder

\* C18, amended: in parallel mode the returned list is in the order in which
\* as_completed yields the futures and is never re-sorted: the results of
\* calls that ended before as_completed started come first, in any order, and
\* after them the results of the other calls in completion order.
C18_YieldOrder ==
    (g.pc = "returned" /\ ParallelMode) =>
        \A i, j \in DOMAIN ResultProviders :
            i < j =>
              /\ ResultProviders[j] \in gobs.early => ResultProviders[i] \in gobs.early
              /\ (ResultProviders[i] \notin gobs.early /\ ResultProviders[j] \notin gobs.early)
                   => IndexOf(CompletionOrder, ResultProviders[i])
                        < IndexOf(CompletionOrder, ResultProviders[j])

\* A parallel gather returned three results, the provider registered second
\* ahead of the one registered first and one call having ended before
\* as_completed started.
C18_Witness ==
    /\ g.pc = "returned"
    /\ ParallelMode
    /\ Len(g.results) = 3
    /\ Cardinality(gobs.early) = 1
    /\ IndexOf(gobs.providers, ResultProviders[1]) = 2
    /\ IndexOf(gobs.providers, ResultProviders[2]) = 1

\* Sums over the results of the gather, in hundredths and in tenths.
RECURSIVE WeightedImpact(_)
WeightedImpact(n) ==
    IF n = 0 THEN 0
    ELSE g.results[n].risk_impact * g.results[n].confidence + WeightedImpact(n - 1)

RECURSIVE TotalConfidence(_)
TotalConfidence(n) ==
    IF n = 0 THEN 0 ELSE g.results[n].confidence + TotalConfidence(n - 1)

\* C19: get_risk_adjustment returns sum(risk_impact * confidence) /
\* sum(confidence) over the results of its gather, and 0 when there are no
\* results or the confidence sum is zero.
C19_WeightedAverage ==
    gret.op = "get_risk_adjustment" =>
        LET n == Len(g.results) IN
        /\ gret.ret.den > 0
        /\ IF n = 0 \/ TotalConfidence(n) = 0
           THEN gret.ret.num = 0
           ELSE gret.ret.num * 10 * TotalConfidence(n) = WeightedImpact(n) * gret.ret.den

\* Results (confidence 0.8, impact 0.5) and (confidence 0.2, impact -1.0)
\* gave 0.2.
C19_Witness ==
    /\ gret.op = "get_risk_adjustment"
    /\ Len(g.results) = 2
    /\ g.results[1].confidence = 8 /\ g.results[1].risk_impact = 5
    /\ g.results[2].confidence = 2 /\ g.results[2].risk_impact = -10
    /\ gret.ret.num * 10 = 2 * gret.ret.den

\* C20, as stated: the intelligence context of step 3 is the empty string when
\* no registry is configured and when the registry produced no result.
C20_EmptyContext ==
    (gret.op = "_gather_intelligence" /\ (gret.arg = None \/ g.results = << >>))
        => gret.ret.text = ""

\* C20, amended: the intelligence context of step 3 is the empty string when
\* no registry is configured; when a registry is configured and no provider
\* produced a result it is the placeholder of get_aggregated_context.
C20_EmptyOrPlaceholder ==
    gret.op = "_gather_intelligence" =>
        /\ gret.arg = None => gret.ret.text = ""
        /\ (gret.arg # None /\ g.results = << >>) =>
             gret.ret.text = "No additional market intelligence available."
        /\ (gret.arg # None /\ g.results # << >>) =>
             gret.ret.text \notin { "", "No additional market intelligence available." }

\* A cycle with a registry gathered, every selected provider raised, and the
\* context is the placeholder.
C20_Witness ==
    /\ gret.op = "_gather_intelligence"
    /\ gret.arg # None
    /\ g.selected # << >>
    /\ Len(gobs.outcomes) = Len(g.selected)
    /\ g.results = << >>
    /\ gret.ret.text = "No additional market intelligence available."

\* ---------------------------------------------------------------- claims C28, C29, C30
\* The callback invocations made during the last call on sm.
NewInvocations == SubSeq(cbLog, last.cbPre + 1, Len(cbLog))

\* C28: a registered transition callback is invoked exactly once per
\* successful transition_to, with (stage before, stage after), after the
\* current stage and the history were updated; it is not invoked for a
\* rejected transition, a no-op handle_risk_decision, or reset.
C28_CallbackPerTransition ==
    /\ (last.op = "transition_to" /\ last.ret /\ last.pre.on_transition # None) =>
         NewInvocations =
           << [ from_state |-> last.pre.state, to_state |-> last.arg,
                state |-> last.arg,
                history |-> Append(last.pre.history, last.arg) ] >>
    /\ (last.op = "transition_to" /\ ~ last.ret) => NewInvocations = << >>
    /\ (last.op = "handle_risk_decision" /\ last.pre.state # RISK_ASSESSMENT) =>
         NewInvocations = << >>
    /\ (last.op = "handle_risk_decision" /\ last.pre.state = RISK_ASSESSMENT
          /\ last.pre.on_transition # None) =>
         /\ Len(NewInvocations) = 1
         /\ NewInvocations[1].from_state = RISK_ASSESSMENT
         /\ NewInvocations[1].to_state = sm.state
         /\ NewInvocations[1].state = sm.state
         /\ NewInvocations[1].history = sm.history
    /\ last.op \in { "reset", "set_transition_callback" } => NewInvocations = << >>
    /\ last.op # "none" /\ last.pre.on_transition = None => NewInvocations = << >>

\* The callback was invoked for a second successful transition_to, after a
\* rejected one and a reset left it alone.
C28_Witness ==
    /\ last.op = "transition_to"
    /\ last.ret
    /\ last.pre.on_transition # None
    /\ Len(cbLog) = 2
    /\ wasReset
    /\ nCalls > Len(entered) + 2

\* The text holds the letters r, e, j, e, c, t in a row, in either case.
HoldsReject(text) ==
    \E i \in DOMAIN text :
        /\ i + 5 <= Len(text)
        /\ text[i] \in { "r", "R" }
        /\ text[i + 1] \in { "e", "E" }
        /\ text[i + 2] \in { "j", "J" }
        /\ text[i + 3] \in { "e", "E" }
        /\ text[i + 4] \in { "c", "C" }
        /\ text[i + 5] \in { "t", "T" }

\* C29: the decision parsed from the risk text is Rejected iff the text,
\* compared case-insensitively, contains 'reject' anywhere, and Approved
\* otherwise, the empty text included; it depends on nothing else.
C29_RejectedIffHoldsReject ==
    (cycLast.op = "return" /\ cycLast.site = "risk") =>
        /\ cyc.risk_decision \in RiskDecision
        /\ cyc.risk_decision = REJECTED <=> HoldsReject(cyc.risk_assessment.text)

\* In a second attempt, a text with 'rEJect' in its middle parsed Rejected.
C29_Witness ==
    /\ cycLast.op = "return"
    /\ cycLast.site = "risk"
    /\ obs.attempts = 2
    /\ Len(cyc.risk_assessment.text) = 10
    /\ cyc.risk_decision = REJECTED

\* C30, as stated: in every attempt the current stage is ThesisGeneration
\* while the thesis text is generated, QuantAnalysis while the quant text is
\* generated, RiskAssessment while the risk text is generated and
\* OrderGeneration while the order text is generated.
C30_StageMatchesCall ==
    /\ cyc.pc = "thesis" => cyc.state_machine.state = THESIS_GENERATION
    /\ cyc.pc = "quant" => cyc.state_machine.state = QUANT_ANALYSIS
    /\ cyc.pc = "risk" => cyc.state_machine.state = RISK_ASSESSMENT
    /\ cyc.pc = "order" => cyc.state_machine.state = ORDER_GENERATION

\* ---------------------------------------------------------------- claims C21 to C27
\* C21: get_aggregated_context returns the same fixed placeholder whenever
\* its gather yields no results, and otherwise a block with exactly one
\* rendered section per gathered result, in the order the gather returned them.
C21_PlaceholderOrSections ==
    gret.op = "get_aggregated_context" =>
        IF g.results = << >>
        THEN /\ gret.ret.text = "No additional market intelligence available."
             /\ gret.ret.sections = << >>
        ELSE /\ gret.ret.text # "No additional market intelligence available."
             /\ Len(gret.ret.sections) = Len(g.results)
             /\ \A i \in DOMAIN g.results :
                  gret.ret.sections[i] = g.results[i].provider_name

\* The block of a parallel gather whose three results are not in registration
\* order.
C21_Witness ==
    /\ gret.op = "get_aggregated_context"
    /\ Len(gret.ret.sections) = 3
    /\ ~ InRegistrationOrder(ResultProviders)

\* The names list_providers returns, and whether one is among them.
Listed(r) == Range(list_providers(r))
ListedEnabled(r, en) == Range(list_enabled_providers(r, en))

\* C22: register(p) returns the registry itself and afterwards
\* get_provider(p.name) is p; registering a name already present replaces the
\* previous provider, so list_providers never holds a name twice and the
\* number of providers does not grow on overwrite.
C22_RegisterInsertsOrReplaces ==
    /\ Cardinality(Listed(reg)) = Len(list_providers(reg))
    /\ api.op = "register" =>
         /\ api.ret = "self"
         /\ get_provider(reg, provider_name(api.arg)) = api.arg
         /\ \E i \in DOMAIN reg.providers : reg.providers[i] = api.arg
         /\ \A i \in DOMAIN reg.providers :
              provider_name(reg.providers[i]) = provider_name(api.arg)
                => reg.providers[i] = api.arg
         /\ Len(reg.providers) =
              IF provider_name(api.arg) \in Listed(api.pre)
              THEN Len(api.pre.providers)
              ELSE Len(api.pre.providers) + 1
         /\ \A name \in AllNames \ { provider_name(api.arg) } :
              get_provider(reg, name) = get_provider(api.pre, name)

\* The fourth object was registered over the first, next to two others.
C22_Witness ==
    /\ api.op = "register"
    /\ api.arg = "p4"
    /\ get_provider(api.pre, "sentiment") = "p1"
    /\ Len(reg.providers) = 3
    /\ Len(api.pre.providers) = 3

\* C23: unregister(name) returns True iff the name was registered immediately
\* before; afterwards the name is not listed, and on False the registry is
\* unchanged.  After clear() nothing is listed.  After any sequence of
\* register, unregister and clear, list_providers holds exactly the names
\* registered and not unregistered or cleared since.
C23_ListedAreTheLive ==
    /\ Listed(reg) = api.live
    /\ api.op = "unregister" =>
         /\ api.ret = (api.arg \in api.preLive)
         /\ api.arg \notin Listed(reg)
         /\ ~ api.ret => reg = api.pre
         /\ api.ret => Len(reg.providers) = Len(api.pre.providers) - 1
         /\ \A name \in AllNames \ { api.arg } :
              get_provider(reg, name) = get_provider(api.pre, name)
    /\ api.op = "clear" => list_providers(reg) = << >>

\* A name was unregistered from a registry of three and two stayed listed.
C23_Witness ==
    /\ api.op = "unregister"
    /\ api.ret = TRUE
    /\ Len(api.pre.providers) = 3
    /\ api.live = Listed(reg)
    /\ Cardinality(api.live) = 2

\* C24: disable_provider and enable_provider never change list_providers;
\* after disable the name is still registered and absent from
\* list_enabled_providers, after enable it is present again; both return False
\* and change nothing when the name is not registered.  list_enabled_providers
\* is always a subset of list_providers.
C24_ToggleKeepsRegistration ==
    /\ ListedEnabled(reg, enabled) \subseteq Listed(reg)
    /\ api.op \in { "enable_provider", "disable_provider" } =>
         /\ reg = api.pre
         /\ api.ret = (api.arg \in Listed(api.pre))
         /\ ~ api.ret => enabled = api.preEnabled
         /\ \A name \in AllNames \ { api.arg } :
              name \in ListedEnabled(reg, enabled)
                <=> name \in ListedEnabled(api.pre, api.preEnabled)
    /\ (api.op = "disable_provider" /\ api.ret = TRUE) =>
         /\ api.arg \in Listed(reg)
         /\ api.arg \notin ListedEnabled(reg, enabled)
    /\ (api.op = "enable_provider" /\ api.ret = TRUE) =>
         api.arg \in ListedEnabled(reg, enabled)

\* A disabled provider was enabled again while another stays disabled.
C24_Witness ==
    /\ api.op = "enable_provider"
    /\ api.ret = TRUE
    /\ api.arg \notin ListedEnabled(api.pre, api.preEnabled)
    /\ api.arg \in ListedEnabled(reg, enabled)
    /\ Cardinality(Listed(reg)) = 3
    /\ Cardinality(ListedEnabled(reg, enabled)) = 2

\* The selected providers the gather in flight has yet to invoke.
Pending ==
    Range(g.queue) \cup
    (IF g.pc = "sequential"
     THEN { g.selected[i] : i \in { j \in DOMAIN g.selected : j >= g.idx } }
     ELSE { })

ToggledObject(t) == get_provider(reg, t.name)

\* C25: a disable_provider or enable_provider call made while a gather is in
\* flight affects only later gathers: the gather in flight invokes exactly the
\* providers selected at its start, so a provider disabled meanwhile is still
\* invoked and its result returned, and one enabled meanwhile is not invoked.
C25_TogglesReachLaterGathersOnly ==
    g.pc # "idle" =>
        /\ Range(g.selected) = Eligible
        /\ Range(gobs.invoked) \subseteq Eligible
        /\ Eligible \subseteq Range(gobs.invoked) \cup Pending
        /\ \A i \in DOMAIN gobs.toggled :
             LET t == gobs.toggled[i]
                 p == ToggledObject(t)
             IN  /\ (t.op = "enable_provider" /\ p \notin gobs.enabled) =>
                      p \notin Range(gobs.invoked)
                 /\ (t.op = "disable_provider" /\ p \in Eligible
                       /\ g.pc = "returned") =>
                      /\ p \in Range(gobs.invoked)
                      /\ \A o \in OkOutcomes :
                           o.provider = p =>
                             \E k \in DOMAIN g.results : g.results[k] = o.result

\* A gather returned the result of a provider that was disabled before its
\* analyze call started.
C25_Witness ==
    /\ g.pc = "returned"
    /\ \E i \in DOMAIN gobs.toggled :
         LET t == gobs.toggled[i]
             p == ToggledObject(t)
         IN  /\ t.op = "disable_provider"
             /\ p \notin t.invoked
             /\ ~ enabled[p]
             /\ \E k \in DOMAIN g.results : g.results[k].provider_name = t.name

\* The positions in config.stocks whose cycle has ended with an order.
SucceededPositions ==
    SelectSeq([ i \in 1 .. Len(batch.seen.succeeded) |-> i ],
              LAMBDA i : batch.seen.succeeded[i])

\* C26: AutoHedge.run processes every configured stock exactly once and in
\* configuration order whatever the outcome of earlier stocks: a stock whose
\* cycle fails contributes no record and does not stop the loop, and the
\* analyses hold exactly one record per stock whose cycle succeeded, in
\* configuration order.
C26_BatchCompletes ==
    LET b == batch.b
        seen == batch.seen
    IN  /\ IsPrefix(seen.processed, b.stocks)
        /\ Len(seen.processed) - Len(seen.succeeded) = IF b.pc = "cycle" THEN 1 ELSE 0
        /\ b.pc = "done" => seen.processed = b.stocks
        /\ Len(b.analyses) = Len(SucceededPositions)
        /\ \A k \in DOMAIN b.analyses :
             /\ b.analyses[k].stock = b.stocks[SucceededPositions[k]]
             /\ b.analyses[k].analysis # NoResult

\* A batch of three ended with records for the first and the third stock, the
\* cycle of the second having failed.
C26_Witness ==
    /\ batch.b.pc = "done"
    /\ batch.seen.succeeded = << TRUE, FALSE, TRUE >>
    /\ Len(batch.b.analyses) = 2

\* C27: the retry counter and the state machine are private to one
\* controller: no step of one controller changes the other's current stage,
\* history or attempts used, so each gets the full max_retries budget and
\* starts from Init however many attempts the other consumed.
C27_ControllersIndependent ==
    \A i \in Controllers :
        LET c == ctl.objs[i] IN
        /\ (ctl.who # 0 /\ ctl.who # i) => c = ctl.pre[i]
        /\ c.retry_count <= ctl.attempts[i]
        /\ ctl.attempts[i] <= c.max_retries
        /\ (c.pc = "loop" /\ ctl.attempts[i] = 0) =>
             /\ c.state_machine = TradingStateMachine(INITIALIZATION)
             /\ c.retry_count = 0
        /\ (c.pc = "done" /\ c.result = NoResult) =>
             /\ ctl.attempts[i] = c.max_retries
             /\ c.retry_count = c.max_retries

\* The first controller used up its attempts while the second was in its
\* first attempt, which then went on untouched.
C27_Witness ==
    /\ ctl.objs[1].pc = "done"
    /\ ctl.objs[1].result = NoResult
    /\ ctl.attempts[1] = CtlRetries
    /\ ctl.who = 2
    /\ ctl.pre[2].pc = "thesis"
    /\ ctl.objs[2].pc = "quant"
    /\ ctl.attempts[2] = 1
    /\ ctl.objs[2].retry_count = 0
    /\ ctl.objs[2].state_machine.history =
         << INITIALIZATION, THESIS_GENERATION, QUANT_ANALYSIS >>

\* ---------------------------------------------------------------- claims C31 to C39
\* A rejection has just been handled: the risk text was parsed as REJECTED and
\* control is back at the loop condition.
RejectionHandled ==
    /\ cycLast.op = "return"
    /\ cycLast.site = "risk"
    /\ cyc.pc = "loop"

\* C31, as stated: every risk rejection consumes exactly one retry unit and,
\* immediately after it is handled, the current stage is ThesisGeneration,
\* whatever happened in earlier attempts of the same run.
C31_RejectionReturnsToThesis ==
    RejectionHandled =>
        /\ cyc.retry_count = cycLast.pre.retry_count + 1
        /\ cyc.state_machine.state = THESIS_GENERATION

\* The attempt numbered n of run() c directly follows a rejection: the risk
\* text c holds was produced in attempt n - 1 and parsed as REJECTED.
FollowsRejection(c, n) ==
    /\ n >= 2
    /\ c.risk_decision = REJECTED
    /\ c.risk_assessment.kind = "risk"
    /\ c.risk_assessment.attempt = n - 1

\* That rejection was handled from RiskAssessment.
HandledFromRisk(c) ==
    LET h == c.state_machine.history IN
    /\ Len(h) >= 2
    /\ h[Len(h) - 1] = RISK_ASSESSMENT
    /\ h[Len(h)] = THESIS_GENERATION
    /\ c.state_machine.state = THESIS_GENERATION

\* C32: in an attempt that directly follows a rejection handled from
\* RiskAssessment, the step-1 transition_to(ThesisGeneration) returns False
\* and appends nothing, ThesisGeneration never appears twice in a row in the
\* history, and the attempt goes on to the thesis and to QuantAnalysis.
C32_Step1RefusedAfterRejection ==
    /\ \A i \in 1 .. (Len(cyc.state_machine.history) - 1) :
         ~ ( /\ cyc.state_machine.history[i] = THESIS_GENERATION
             /\ cyc.state_machine.history[i + 1] = THESIS_GENERATION )
    /\ ( /\ cycLast.op = "loop"
         /\ cyc.pc # "done"
         /\ FollowsRejection(cycLast.pre, obs.attempts)
         /\ HandledFromRisk(cycLast.pre) ) =>
           /\ ~ transition_to(cycLast.pre.state_machine, THESIS_GENERATION).ret
           /\ cyc.state_machine = cycLast.pre.state_machine
           /\ cyc.pc = "market_data"
    /\ ( /\ cycLast.op = "return"
         /\ cycLast.site = "thesis"
         /\ FollowsRejection(cycLast.pre, obs.attempts)
         /\ HandledFromRisk(cycLast.pre) ) =>
           /\ cyc.pc = "quant"
           /\ cyc.state_machine.state = QUANT_ANALYSIS
           /\ cyc.state_machine.history =
                Append(cycLast.pre.state_machine.history, QUANT_ANALYSIS)

\* The second attempt, after a rejection in the first, has generated its
\* thesis and moved to QuantAnalysis.
C32_Witness ==
    /\ cycLast.op = "return"
    /\ cycLast.site = "thesis"
    /\ obs.attempts = 2
    /\ FollowsRejection(cycLast.pre, obs.attempts)
    /\ HandledFromRisk(cycLast.pre)
    /\ cyc.state_machine.history =
         << INITIALIZATION, THESIS_GENERATION, QUANT_ANALYSIS, RISK_ASSESSMENT,
            THESIS_GENERATION, QUANT_ANALYSIS >>

\* The collaborator calls of one attempt up to the risk stage, in call order.
CallsBeforeRisk(c) ==
    IF c.intelligence_registry = None
    THEN << "market_data", "thesis", "quant" >>
    ELSE << "market_data", "intelligence", "thesis", "quant" >>

\* C33: nothing is cached across attempts: in every attempt that reaches the
\* risk stage the market data, the intelligence (with a registry), the thesis
\* and the quant text were each requested exactly once in that attempt, and
\* the risk and the order stage are given texts of the current attempt only.
C33_NothingCached ==
    /\ cyc.pc = "risk" =>
         /\ obs.log = CallsBeforeRisk(cyc)
         /\ cyc.market_data.attempt = obs.attempts
         /\ risk_task(cyc).thesis.attempt = obs.attempts
         /\ risk_task(cyc).quant_analysis.attempt = obs.attempts
         /\ risk_task(cyc).intelligence_context.attempt = obs.attempts
    /\ cyc.pc = "order" =>
         /\ obs.log = Append(CallsBeforeRisk(cyc), "risk")
         /\ execution_task(cyc).thesis.attempt = obs.attempts
         /\ execution_task(cyc).risk_assessment.attempt = obs.attempts

\* A third attempt, after a rejection and an exception, is at the order
\* stage with a registry configured.
C33_Witness ==
    /\ cyc.pc = "order"
    /\ cyc.intelligence_registry # None
    /\ obs.attempts = 3
    /\ obs.rejections = 1
    /\ obs.exceptions = 1
    /\ obs.calls["thesis"] = 3
    /\ execution_task(cyc).thesis.attempt = 3

\* An attempt has just ended: it returned a record, or the attempt counter
\* went up by one and is within max_retries.
VariantDecreases ==
    ( /\ cycLast.op \in { "return", "raise" }
      /\ cyc.pc \in { "loop", "done" } ) =>
        \/ /\ cyc.pc = "done"
           /\ cyc.result # NoResult
           /\ cyc.retry_count = cycLast.pre.retry_count
        \/ /\ cyc.result = NoResult
           /\ cyc.retry_count = cycLast.pre.retry_count + 1
           /\ cyc.retry_count <= cyc.max_retries

\* C34: run() always terminates with a return value when every collaborator
\* call returns or raises: each loop iteration returns a record or strictly
\* increases the attempt counter, which is bounded by max_retries.
C34_RunTerminates ==
    /\ [] VariantDecreases
    /\ (cyc.pc = "loop") ~> (cyc.pc = "done")

\* A run has returned None after using three attempts, by rejections and by
\* exceptions.
C34_Witness ==
    /\ cyc.pc = "done"
    /\ cyc.result = NoResult
    /\ cyc.max_retries = 3
    /\ cyc.retry_count = 3
    /\ obs.rejections >= 1
    /\ obs.exceptions >= 1

\* C35: run() begins by resetting its state machine, so a further run() on the
\* same controller, after a success or after a failure, starts from Init with
\* a one-entry history and an attempt counter of zero, in the state in which
\* run() on a new controller starts.
C35_RerunLikeNew ==
    cycLast.op = "run" =>
        /\ cyc.state_machine.state = INITIALIZATION
        /\ cyc.state_machine.history = << INITIALIZATION >>
        /\ cyc.retry_count = 0
        /\ cyc = run_begin(TradingCycle(cycLast.pre.intelligence_registry,
                                        cycLast.pre.max_retries))

\* run() was called again on a controller whose first run succeeded and left
\* the machine at Complete.
C35_Witness ==
    /\ cycLast.op = "run"
    /\ obs.runs = 2
    /\ cycLast.pre.pc = "done"
    /\ cycLast.pre.result # NoResult
    /\ is_complete(cycLast.pre.state_machine)
    /\ Len(cycLast.pre.state_machine.history) > 1

\* C36: max_retries is not validated: with max_retries <= 0 run() makes no
\* attempt, calls no collaborator, leaves the state machine at Init and
\* returns None.
C36_NoAttemptWithoutBudget ==
    cyc.max_retries <= 0 =>
        /\ cyc.pc \in { "idle", "loop", "done" }
        /\ obs.attempts = 0
        /\ \A site \in Sites : obs.calls[site] = 0
        /\ cyc.state_machine = TradingStateMachine(INITIALIZATION)
        /\ cyc.pc = "done" => cyc.result = NoResult

\* run() has returned None on a controller constructed with a negative
\* max_retries.
C36_Witness ==
    /\ cyc.max_retries < 0
    /\ cyc.pc = "done"
    /\ cyc.result = NoResult
    /\ cycLast.op = "loop"
    /\ obs.runs = 1
    /\ obs.attempts = 0

\* C37: history returns a snapshot: changing the returned list changes neither
\* the machine's own history nor its current stage, and a snapshot taken
\* earlier is not changed by later transitions (or by reset): every list
\* holds what its owner last put there.
C37_HistoryIsSnapshot ==
    /\ deref(snap.heap, snap.o).history = snap.own.history
    /\ snap.o.state = snap.own.state
    /\ \A i \in DOMAIN snap.held :
         snap.heap[snap.held[i]] = snap.expected[i]
    /\ snap.op = "history" =>
         snap.heap[snap.held[Len(snap.held)]] = snap.own.history

\* A snapshot taken after the first transition was cleared by its holder,
\* and the machine then moved on to QuantAnalysis.
C37_Witness ==
    /\ snap.op = "transition_to"
    /\ Len(snap.held) = 1
    /\ snap.expected[1] = << >>
    /\ snap.own.history = << INITIALIZATION, THESIS_GENERATION, QUANT_ANALYSIS >>
    /\ snap.o.state = QUANT_ANALYSIS

\* Every insight has confidence in [0,1] and risk_impact in [-1,1] (tenths).
InRange(insights) ==
    \A i \in DOMAIN insights :
        /\ 0 <= insights[i].confidence
        /\ insights[i].confidence <= 10
        /\ -10 <= insights[i].risk_impact
        /\ insights[i].risk_impact <= 10

\* C38: whenever every gathered result has confidence in [0,1] and
\* risk_impact in [-1,1], the value get_risk_adjustment returns is in [-1,1].
C38_AdjustmentInRange ==
    (adj.pc = "returned" /\ InRange(adj.insights)) =>
        /\ adj.ret.den > 0
        /\ - adj.ret.den <= adj.ret.num
        /\ adj.ret.num <= adj.ret.den

\* Three in-range results of different weights, all of impact -1, gave
\* exactly -1.
C38_Witness ==
    /\ adj.pc = "returned"
    /\ InRange(adj.insights)
    /\ Len(adj.insights) = 3
    /\ total_weight(adj.insights) = 13
    /\ adj.ret.num = - adj.ret.den

\* The last register call named a provider whose name was already a key.
Replaced ==
    /\ api.op = "register"
    /\ KeyIndex(api.pre, provider_name(api.arg)) # 0

\* C39: registering a name that is already present replaces the provider and
\* keeps the name at the position of its first registration in
\* list_providers, so a sequential gather invokes the replacement, and returns
\* its result, at the original position rather than last.
C39_ReplacementKeepsPosition ==
    /\ Replaced =>
         /\ list_providers(reg) = list_providers(api.pre)
         /\ reg.providers[KeyIndex(api.pre, provider_name(api.arg))] = api.arg
    /\ g.pc # "idle" =>
         /\ gobs.providers = reg.providers
         /\ \A i \in DOMAIN gobs.invoked :
              /\ IndexOf(reg.providers, gobs.invoked[i]) # 0
              /\ \A j \in DOMAIN gobs.invoked :
                   i < j => KeyIndex(reg, provider_name(gobs.invoked[i]))
                              < KeyIndex(reg, provider_name(gobs.invoked[j]))
         /\ \A i \in DOMAIN gobs.outcomes : gobs.outcomes[i].provider = gobs.invoked[i]
         /\ LET done == SelectSeq(gobs.outcomes, LAMBDA o : o.ok)
            IN  g.results = [ i \in DOMAIN done |-> done[i].result ]
    /\ (Replaced /\ g.pc # "idle") =>
         \A i \in DOMAIN gobs.invoked :
            LET k == KeyIndex(api.pre, provider_name(api.arg)) IN
            /\ provider_name(gobs.invoked[i]) = provider_name(api.arg) =>
                 gobs.invoked[i] = api.arg
            /\ gobs.invoked[i] = api.arg =>
                 \A j \in DOMAIN gobs.invoked :
                    /\ j < i => KeyIndex(api.pre, provider_name(gobs.invoked[j])) < k
                    /\ j > i => KeyIndex(api.pre, provider_name(gobs.invoked[j])) > k

\* The first of three registered providers was replaced by another object of
\* the same name, and the gather that followed invoked the replacement first
\* and returned its result first.
C39_Witness ==
    /\ Replaced
    /\ api.pre.providers = << "p1", "p2", "p3" >>
    /\ api.arg = "p4"
    /\ g.pc = "returned"
    /\ gobs.invoked = << "p4", "p2", "p3" >>
    /\ Len(g.results) = 3
    /\ gobs.outcomes[1].provider = "p4"
    /\ g.results[1] = gobs.outcomes[1].result

====
